---- MODULE Spec2Model ----
(***************************************************************************)
(* GameFrame: a single-application Wayland compositor.  The module models  *)
(* the view/output/input coordination engine and the supervision of the    *)
(* primary client as one state machine: one action per event handler.      *)
(* Handlers run on the single event-loop thread, so each is atomic.        *)
(***************************************************************************)
EXTENDS Integers, Sequences, FiniteSets, TLC

\* ---------------------------------------------------------------- bounds
MaxViews == 3
MaxDevices == 3
MaxOutputs == 3
\* The count of wl_display_terminate calls is kept up to this value.
MaxTerminateCalls == 2
\* A key event carries up to this many key symbols.
MaxSyms == 2
\* Signal numbers run from 1 to this value.
MaxSignal == 64
\* Up to this many idle inhibitors exist at a time.
MaxInhibitors == 5
\* The names outputs can have.
MaxNames == 2
\* The modes an output can have.
MaxModes == 3
\* The touch points and the coordinates of touch events.
MaxTouchId == 2
MaxCoord == 2
\* Up to this many records are linked in seat->drag_icons.
MaxDragIcons == 2
\* The offsets of a drag icon run from 0 to this value.
MaxOffset == 1
\* Widths and heights of boxes and of the game resolution run up to this value.
MaxSize == 2
\* Up to this many xwayland views exist.
MaxXwaylandViews == 3

\* The null pointer: a view, surface, toplevel or output that is absent.
NULL == 0

Views == 1..MaxViews
Devices == 1..MaxDevices
\* The keymaps a keyboard can carry; keyboards are merged only when they match.
Keymaps == {"us", "de"}
Inhibitors == 1..MaxInhibitors

VARIABLES
    \* --- views (struct gf_view / gf_xdg_shell_view and their wlr_xdg_toplevel)
    views,            \* the toplevels for which handle_new_xdg_toplevel made a view
    parent,           \* xdg_toplevel->parent of each toplevel (NULL when none)
    mapped,           \* views whose wlr_surface is set (mapped)
    activated,        \* toplevels told "activated" by wlr_xdg_toplevel_set_activated
    fullscreen,       \* toplevels last told "fullscreen" by wlr_xdg_toplevel_set_fullscreen
    xwayland_parent,  \* xwayland_surface->parent of each xwayland view (NULL when none)
    \* --- wlr_seat keyboard state
    focused_surface,  \* seat->seat->keyboard_state.focused_surface (NULL or a view's surface)
    seat_keyboard,    \* wlr_seat_get_keyboard(seat->seat) != NULL
    \* --- seat devices (struct gf_seat)
    dev,              \* each backend input device: its type and keymap, or detached
    keyboard_groups,  \* seat->keyboard_groups, newest first
    pointers,         \* seat->pointers, newest first
    touch,            \* seat->touch, newest first
    caps,             \* the capabilities given to wlr_seat_set_capabilities
    cursor_image,     \* the cursor image: "default" or "unset"
    input_map,        \* of each device: the name of the output it was mapped to by
                      \* wlr_cursor_map_input_to_output (NULL when to none)
    touch_id,         \* seat->touch_id
    touch_lx,         \* seat->touch_lx
    touch_ly,         \* seat->touch_ly
    cursor_x,         \* seat->cursor->x
    cursor_y,         \* seat->cursor->y
    drag_icons,       \* seat->drag_icons, newest first; of each gf_drag_icon: its
                      \* wlr_drag_icon and that icon's offset, the position of its
                      \* scene node, and whether the record was freed
    \* --- outputs (struct gf_output, server->outputs, server->output_layout)
    outputs,          \* server->outputs, newest first; of each gf_output: the
                      \* backend kind, wlr_output->enabled, whether it has a
                      \* scene_output, whether it is in server->output_layout
    output_mode,      \* server->output_mode
    \* --- termination (struct gf_server, struct wl_display)
    terminated,       \* server->terminated
    run,              \* the display's run flag, cleared by wl_display_terminate
    terminate_calls,  \* how many times wl_display_terminate was called
    \* --- key bindings (struct gf_server)
    allow_vt_switch,  \* server->allow_vt_switch
    has_session,      \* server->session != NULL
    \* --- the game resolution (struct gf_server)
    game_width,       \* server->game_width
    game_height,      \* server->game_height
    \* --- idle inhibitors (struct gf_idle_inhibitor_v1, server->inhibitors)
    inhibitors,       \* server->inhibitors, newest first
    live_inhibitors,  \* the wlr_idle_inhibitor_v1 objects that exist
    inhibited,        \* the value last given to wlr_idle_notifier_v1_set_inhibited
    \* --- main
    pc,               \* where main is: "run" (in wl_display_run), "after_run",
                      \* "end", "exited"
    ret,              \* main's ret
    app_ret,          \* main's app_ret
    return_app_code,  \* server->return_app_code
    sigchld_open,     \* the read end of the client's pipe is still open
    client_fate,      \* how the client ended, as waitpid found it (NoFate before)
    exit_code,        \* <<status>> once the server process has exited, <<>> before
    \* --- startup (main before wl_display_run)
    cred,             \* the process's real, effective and saved user and group
    setup_failure,    \* the step of main's setup that failed ("none" when none did)
    spawned,          \* how spawn_primary_client went ("none" before it ran)
    client_exited,    \* the primary client process has terminated
    \* --- the process
    crashed,          \* the process was killed by undefined behaviour or a failed assert
    \* --- observation of the handler that ran last
    ev,               \* the event handled last and what it saw on entry
    calls             \* the calls that handler made, in order

viewVars == <<views, parent, mapped, activated, fullscreen, xwayland_parent>>
focusVars == <<focused_surface, seat_keyboard>>
touchVars == <<touch_id, touch_lx, touch_ly>>
dragVars == <<cursor_x, cursor_y, drag_icons>>
seatVars == <<dev, keyboard_groups, pointers, touch, caps, cursor_image, input_map, touchVars, dragVars>>
outputVars == <<outputs, output_mode>>
termVars == <<terminated, run, terminate_calls>>
gameVars == <<game_width, game_height>>
keyVars == <<allow_vt_switch, has_session, gameVars>>
idleVars == <<inhibitors, live_inhibitors, inhibited>>
startVars == <<cred, setup_failure, spawned, client_exited>>
mainVars == <<pc, ret, app_ret, return_app_code, sigchld_open, client_fate, exit_code>>
vars == <<views, parent, mapped, activated, fullscreen, xwayland_parent, focused_surface, seat_keyboard,
          dev, keyboard_groups, pointers, touch, caps, cursor_image,
          input_map, touch_id, touch_lx, touch_ly, cursor_x, cursor_y, drag_icons,
          outputs, output_mode,
          terminated, run, terminate_calls,
          allow_vt_switch, has_session, game_width, game_height,
          inhibitors, live_inhibitors, inhibited,
          cred, setup_failure, spawned, client_exited,
          pc, ret, app_ret, return_app_code, sigchld_open, client_fate, exit_code,
          crashed, ev, calls>>

\* Handlers are run by the event loop, inside wl_display_run.  Destroy and
\* unmap handlers are also run at the end of main, when the clients and the
\* backend are destroyed.
Dispatching == pc = "run" /\ ~crashed
Destroying == pc \in {"run", "end"} /\ ~crashed

\* A call made by a handler: the callee and its (integer) argument.
Call(f, a) == [f |-> f, arg |-> a]

Called(f) == \E i \in 1..Len(calls) : calls[i].f = f

CalledWith(f, a) == \E i \in 1..Len(calls) : calls[i] = Call(f, a)

\* ------------------------------------------------------------ view kinds
\* The views made by handle_new_xwayland_surface (xwayland.h) in builds with
\* GAMEFRAME_HAS_XWAYLAND; they have no xdg_toplevel.
XwaylandViews == (MaxViews + 1)..(MaxViews + MaxXwaylandViews)

view_type(v) ==
    IF v \in Views THEN "GAMEFRAME_XDG_SHELL_VIEW" ELSE "GAMEFRAME_XWAYLAND_VIEW"

\* ----------------------------------------------------- xdg_shell.c helpers
\* The while loop of is_transient_for: follow ->parent from the child's
\* toplevel until the parent's toplevel is met or the chain ends.
\* The loop cut down to its first turn: only the child's own parent is compared.
is_transient_for_walk_once(xdg_toplevel, parent_toplevel) ==
    IF xdg_toplevel = NULL THEN FALSE
    ELSE parent[xdg_toplevel] = parent_toplevel

RECURSIVE is_transient_for_walk(_, _)
is_transient_for_walk(xdg_toplevel, parent_toplevel) ==
    IF xdg_toplevel = NULL THEN FALSE
    ELSE IF parent[xdg_toplevel] = parent_toplevel THEN TRUE
    ELSE is_transient_for_walk(parent[xdg_toplevel], parent_toplevel)

\* The arguments of the walk exchanged: the chain of the parent is searched
\* for the child.
is_transient_for_swapped(child, parent_view) ==
    IF view_type(parent_view) # "GAMEFRAME_XDG_SHELL_VIEW" THEN FALSE
    ELSE is_transient_for_walk(parent_view, child)

is_transient_for(child, parent_view) ==
    IF view_type(parent_view) # "GAMEFRAME_XDG_SHELL_VIEW" THEN FALSE
    ELSE is_transient_for_walk(child, parent_view)

\* view.c is not among the sources: the wrapper dispatches to the child's impl.
view_is_transient_for(child, parent_view) == is_transient_for(child, parent_view)

\* view_from_wlr_surface: the view whose surface this is; an unmapped view has
\* no surface, so a stale focused_surface yields no view.
view_from_wlr_surface(surface) == IF surface \in mapped THEN surface ELSE NULL

seat_get_focus ==
    IF focused_surface = NULL THEN NULL ELSE view_from_wlr_surface(focused_surface)

\* ------------------------------------------------------------ seat.c focus
\* view_activate (view.c, not among the sources) dispatches to impl->activate,
\* which is xdg_shell.c's activate: wlr_xdg_toplevel_set_activated.
activate(view, on) ==
    activated' = IF on THEN activated \cup {view} ELSE activated \ {view}

view_activate(view, on) == activate(view, on)

\* seat_set_focus: the keyboard enters the view's surface only when the seat
\* has a keyboard; the view is then told it is activated.  No other view is
\* told anything.
seat_set_focus(view) ==
    /\ focused_surface' = IF seat_keyboard THEN view ELSE focused_surface
    /\ view_activate(view, TRUE)

\* press_cursor_button with state == WLR_BUTTON_PRESSED; `view` is what
\* desktop_view_at found under the cursor.  With no focused view the call
\* view_is_transient_for(NULL, view) dereferences a null child: the process
\* dies, or the call yields either answer.
press_cursor_button(view) ==
    LET current == seat_get_focus IN
    /\ ev' = [h |-> "press_cursor_button", view |-> view, current |-> current]
    /\ IF view = current
       THEN /\ calls' = <<>>
            /\ UNCHANGED <<focused_surface, activated, crashed>>
       ELSE IF view = NULL
       THEN /\ calls' = <<>>
            /\ UNCHANGED <<focused_surface, activated, crashed>>
       ELSE IF current = NULL
       THEN \/ /\ crashed' = TRUE
               /\ calls' = <<Call("view_is_transient_for", view)>>
               /\ UNCHANGED <<focused_surface, activated>>
            \/ /\ calls' = <<Call("view_is_transient_for", view)>>
               /\ UNCHANGED <<focused_surface, activated, crashed>>
            \/ /\ calls' = <<Call("view_is_transient_for", view),
                             Call("seat_set_focus", view)>>
               /\ seat_set_focus(view)
               /\ UNCHANGED crashed
       ELSE IF ~view_is_transient_for(current, view)
       THEN /\ calls' = <<Call("view_is_transient_for", view),
                          Call("seat_set_focus", view)>>
            /\ seat_set_focus(view)
            /\ UNCHANGED crashed
       ELSE /\ calls' = <<Call("view_is_transient_for", view)>>
            /\ UNCHANGED <<focused_surface, activated, crashed>>

\* desktop_view_at: the topmost mapped view under the cursor, or none.
desktop_view_at == mapped \cup {NULL}

\* handle_cursor_motion_relative and handle_cursor_motion_absolute: move the
\* cursor (wlr_cursor_move, wlr_cursor_warp_absolute) to (x, y), then
\* re-evaluate focus at the new position.  Nothing else of the seat is touched.
handle_cursor_motion(x, y) ==
    /\ Dispatching
    /\ cursor_x' = x
    /\ cursor_y' = y
    /\ \E view \in desktop_view_at : press_cursor_button(view)
    /\ UNCHANGED <<dev, keyboard_groups, pointers, touch, caps, cursor_image, input_map, touchVars, drag_icons>>
    /\ UNCHANGED <<views, parent, mapped, fullscreen, xwayland_parent, seat_keyboard, outputVars, termVars, keyVars, idleVars, startVars, mainVars>>

\* handle_modifier_event: the keyboard becomes the seat's keyboard.
handle_modifier_event ==
    /\ Dispatching
    /\ seat_keyboard' = TRUE
    /\ ev' = [h |-> "handle_modifier_event"]
    /\ calls' = <<Call("wlr_seat_set_keyboard", 0),
                  Call("wlr_seat_keyboard_notify_modifiers", 0)>>
    /\ UNCHANGED <<viewVars, focused_surface, crashed, seatVars, outputVars, termVars, keyVars, idleVars, startVars, mainVars>>

\* --------------------------------------------------- xdg_shell.c toplevels
handle_new_xdg_toplevel(v) ==
    /\ Dispatching
    /\ v \notin views
    /\ views' = views \cup {v}
    /\ parent' = [parent EXCEPT ![v] = NULL]
    /\ ev' = [h |-> "handle_new_xdg_toplevel", view |-> v]
    /\ calls' = <<Call("view_init", v)>>
    /\ UNCHANGED <<mapped, activated, fullscreen, xwayland_parent, focusVars, crashed, seatVars, outputVars, termVars, keyVars, idleVars, startVars, mainVars>>

\* The client's xdg_toplevel.set_parent: wlroots refuses a loop and treats an
\* unmapped parent as none.
xdg_toplevel_set_parent(v, p) ==
    /\ Dispatching
    /\ v \in views
    /\ p \in mapped \cup {NULL}
    /\ p # v
    /\ p # NULL => ~is_transient_for_walk(p, v)
    /\ parent' = [parent EXCEPT ![v] = p]
    /\ ev' = [h |-> "xdg_toplevel_set_parent", view |-> v]
    /\ calls' = <<>>
    /\ UNCHANGED <<views, mapped, activated, fullscreen, xwayland_parent, focusVars, crashed, seatVars, outputVars, termVars, keyVars, idleVars, startVars, mainVars>>

\* handle_xdg_toplevel_map: view_map (view.c, not among the sources) records
\* the surface and gives the view the focus.
handle_xdg_toplevel_map(v) ==
    /\ Dispatching
    /\ v \in views /\ v \notin mapped
    /\ mapped' = mapped \cup {v}
    /\ seat_set_focus(v)
    /\ ev' = [h |-> "handle_xdg_toplevel_map", view |-> v]
    /\ calls' = <<Call("view_map", v), Call("seat_set_focus", v)>>
    /\ UNCHANGED <<views, parent, fullscreen, xwayland_parent, seat_keyboard, crashed, seatVars, outputVars, termVars, keyVars, idleVars, startVars, mainVars>>

\* handle_xdg_toplevel_unmap: view_unmap drops the surface.  wlroots hands the
\* children of an unmapped toplevel to its own parent.
handle_xdg_toplevel_unmap(v) ==
    /\ Destroying
    /\ v \in mapped
    /\ mapped' = mapped \ {v}
    /\ parent' = [c \in Views |-> IF parent[c] = v THEN parent[v] ELSE parent[c]]
    /\ ev' = [h |-> "handle_xdg_toplevel_unmap", view |-> v]
    /\ calls' = <<Call("view_unmap", v)>>
    /\ UNCHANGED <<views, activated, fullscreen, xwayland_parent, focusVars, crashed, seatVars, outputVars, termVars, keyVars, idleVars, startVars, mainVars>>

\* handle_xdg_toplevel_destroy: runs after the unmap; the view and its toplevel
\* are gone, and wlroots clears a keyboard focus that was on the surface.
handle_xdg_toplevel_destroy(v) ==
    /\ Destroying
    /\ v \in views /\ v \notin mapped
    /\ views' = views \ {v}
    /\ activated' = activated \ {v}
    /\ parent' = [parent EXCEPT ![v] = NULL]
    /\ focused_surface' = IF focused_surface = v THEN NULL ELSE focused_surface
    /\ ev' = [h |-> "handle_xdg_toplevel_destroy", view |-> v]
    /\ fullscreen' = fullscreen \ {v}
    /\ calls' = <<Call("view_destroy", v)>>
    /\ UNCHANGED <<mapped, xwayland_parent, seat_keyboard, crashed, seatVars, outputVars, termVars, keyVars, idleVars, startVars, mainVars>>

\* handle_xdg_toplevel_request_fullscreen: nothing for an unmapped surface;
\* otherwise the toplevel gets the size of the layout and the fullscreen state
\* the client asked for.
handle_xdg_toplevel_request_fullscreen(v, requested) ==
    /\ Dispatching
    /\ v \in views
    /\ ev' = [h |-> "handle_xdg_toplevel_request_fullscreen", view |-> v,
              requested |-> requested, was_mapped |-> v \in mapped,
              was_fullscreen |-> v \in fullscreen]
    /\ IF v \notin mapped
       THEN /\ calls' = <<>>
            /\ UNCHANGED fullscreen
       ELSE /\ fullscreen' = IF requested THEN fullscreen \cup {v} ELSE fullscreen \ {v}
            /\ calls' = <<Call("wlr_xdg_toplevel_set_size", v),
                          Call("wlr_xdg_toplevel_set_fullscreen", IF requested THEN 1 ELSE 0),
                          Call("wlr_foreign_toplevel_handle_v1_set_fullscreen",
                               IF requested THEN 1 ELSE 0)>>
    /\ UNCHANGED <<views, parent, mapped, activated, xwayland_parent, focusVars, crashed, seatVars, outputVars, termVars, keyVars, idleVars, startVars, mainVars>>

\* The xwayland implementation of is_transient_for, called through
\* view_is_transient_for for an xwayland child.  A parent that is not an
\* xdg-shell view is refused at once; what follows that test is not among the
\* sources (the file ends inside the function), so for an xdg-shell parent
\* either answer is taken.
xwayland_is_transient_for(child, parent_view) ==
    /\ Dispatching
    /\ child \in XwaylandViews
    /\ \E result \in BOOLEAN :
          /\ view_type(parent_view) # "GAMEFRAME_XDG_SHELL_VIEW" => result = FALSE
          /\ ev' = [h |-> "xwayland_is_transient_for", child |-> child,
                    parent_view |-> parent_view, result |-> result]
    /\ calls' = <<>>
    /\ UNCHANGED <<viewVars, focusVars, crashed, seatVars, outputVars, termVars, keyVars, idleVars, startVars, mainVars>>

\* main's defaults of the game resolution, before parse_args.
DefaultGameWidth == 1280
DefaultGameHeight == 720

\* The game resolutions -w and -h can set (0: fall back to the box) and the
\* widths and heights of the boxes views are positioned in.
GameSizes == 0..MaxSize
BoxSizes == 1..MaxSize

\* The size maximize gives the toplevel: the game resolution where it is
\* positive, else the box.
maximize_size(output_width, output_height) ==
    [width |-> IF game_width > 0 THEN game_width ELSE output_width,
     height |-> IF game_height > 0 THEN game_height ELSE output_height]

\* maximize, the xdg-shell implementation of view_maximize, called for a
\* mapped view with the box of its output or of the layout.
maximize(v, output_width, output_height) ==
    /\ Dispatching
    /\ v \in mapped
    /\ ev' = [h |-> "maximize", view |-> v,
              output_width |-> output_width, output_height |-> output_height,
              size |-> maximize_size(output_width, output_height)]
    /\ calls' = <<Call("wlr_xdg_toplevel_set_size", v),
                  Call("wlr_xdg_toplevel_set_maximized", 1)>>
    /\ UNCHANGED <<viewVars, focusVars, crashed, seatVars, outputVars, termVars, keyVars, idleVars, startVars, mainVars>>

\* ------------------------------------------------------- seat.c devices
Detached == [type |-> "none"]

\* The sequence s without its i-th element (wl_list_remove).
RemoveAt(s, i) == SubSeq(s, 1, i - 1) \o SubSeq(s, i + 1, Len(s))

\* The sequence s without the element x.
Without(s, x) == SelectSeq(s, LAMBDA e : e # x)

\* The touch collection left out of the capabilities.
capabilities_of_no_touch(groups, ptrs, tch) ==
    (IF groups # <<>> THEN {"WL_SEAT_CAPABILITY_KEYBOARD"} ELSE {})
    \cup (IF ptrs # <<>> THEN {"WL_SEAT_CAPABILITY_POINTER"} ELSE {})

\* update_capabilities over the collections as the handler leaves them.
capabilities_of(groups, ptrs, tch) ==
    (IF groups # <<>> THEN {"WL_SEAT_CAPABILITY_KEYBOARD"} ELSE {})
    \cup (IF ptrs # <<>> THEN {"WL_SEAT_CAPABILITY_POINTER"} ELSE {})
    \cup (IF tch # <<>> THEN {"WL_SEAT_CAPABILITY_TOUCH"} ELSE {})

\* The capabilities set and the cursor image left as it is.
update_capabilities_keep_image(groups, ptrs, tch) ==
    /\ caps' = capabilities_of(groups, ptrs, tch)
    /\ UNCHANGED cursor_image

update_capabilities(groups, ptrs, tch) ==
    LET c == capabilities_of(groups, ptrs, tch) IN
    /\ caps' = c
    /\ cursor_image' = IF "WL_SEAT_CAPABILITY_POINTER" \notin c
                       THEN "unset" ELSE "default"

\* map_input_device_to_output: the device is mapped to the first output of
\* server->outputs that has the given name; nothing changes when the name is
\* NULL or no output of the list has it.
map_input_device_to_output(device, output_name) ==
    IF output_name = NULL THEN input_map
    ELSE IF \E i \in 1..Len(outputs) : outputs[i].name = output_name
    THEN [input_map EXCEPT ![device] = output_name]
    ELSE input_map

\* wlr_keyboard_group_add_keyboard: wlroots takes a keyboard into a group only
\* when their keymaps match.
wlr_keyboard_group_add_keyboard(group, keymap) == group.keymap = keymap

\* The first group of the list that is not virtual and takes the keyboard
\* (0 when there is none): the wl_list_for_each of gf_keyboard_group_add.
RECURSIVE first_accepting_group(_, _, _)
first_accepting_group(groups, i, keymap) ==
    IF i > Len(groups) THEN 0
    ELSE IF groups[i].is_virtual THEN first_accepting_group(groups, i + 1, keymap)
    ELSE IF wlr_keyboard_group_add_keyboard(groups[i], keymap) THEN i
    ELSE first_accepting_group(groups, i + 1, keymap)

\* gf_keyboard_group_add: the keyboard groups afterwards, and whether the
\* function reached its own update_capabilities (it returns early when an
\* existing group took the keyboard or an allocation failed).
gf_keyboard_group_add(d, keymap, virtual, alloc_ok) ==
    LET i == IF virtual THEN 0 ELSE first_accepting_group(keyboard_groups, 1, keymap) IN
    IF i # 0
    THEN [groups |-> [keyboard_groups EXCEPT ![i].devices = @ \cup {d}],
          updated |-> FALSE]
    ELSE IF ~alloc_ok
    THEN [groups |-> keyboard_groups, updated |-> FALSE]
    ELSE [groups |-> <<[is_virtual |-> virtual, keymap |-> keymap, devices |-> {d}]>>
                     \o keyboard_groups,
          updated |-> TRUE]

\* handle_new_keyboard: virtual is read from the device type, then the
\* capabilities are recomputed whatever gf_keyboard_group_add did.
handle_new_keyboard(d, type, keymap, output_name, alloc_ok) ==
    LET virtual == (type = "WLR_INPUT_DEVICE_VIRTUAL_KEYBOARD")
        r == gf_keyboard_group_add(d, keymap, virtual, alloc_ok) IN
    /\ keyboard_groups' = r.groups
    /\ update_capabilities(r.groups, pointers, touch)
    /\ calls' = <<Call("gf_keyboard_group_add", d)>>
                \o (IF r.updated THEN <<Call("update_capabilities", 0)>> ELSE <<>>)
                \o <<Call("update_capabilities", 0),
                     Call("map_input_device_to_output", d)>>
    /\ input_map' = map_input_device_to_output(d, output_name)
    /\ UNCHANGED <<pointers, touch>>

handle_new_pointer(d, output_name, alloc_ok) ==
    IF ~alloc_ok
    THEN /\ calls' = <<>>
         /\ UNCHANGED <<keyboard_groups, pointers, touch, caps, cursor_image, input_map>>
    ELSE /\ pointers' = <<d>> \o pointers
         /\ update_capabilities(keyboard_groups, <<d>> \o pointers, touch)
         /\ calls' = <<Call("map_input_device_to_output", d),
                       Call("update_capabilities", 0)>>
         /\ input_map' = map_input_device_to_output(d, output_name)
         /\ UNCHANGED <<keyboard_groups, touch>>

handle_new_touch(d, output_name, alloc_ok) ==
    IF ~alloc_ok
    THEN /\ calls' = <<>>
         /\ UNCHANGED <<keyboard_groups, pointers, touch, caps, cursor_image, input_map>>
    ELSE /\ touch' = <<d>> \o touch
         /\ update_capabilities(keyboard_groups, pointers, <<d>> \o touch)
         /\ calls' = <<Call("map_input_device_to_output", d),
                       Call("update_capabilities", 0)>>
         /\ input_map' = map_input_device_to_output(d, output_name)
         /\ UNCHANGED <<keyboard_groups, pointers>>

InputDeviceTypes ==
    {"WLR_INPUT_DEVICE_KEYBOARD", "WLR_INPUT_DEVICE_POINTER",
     "WLR_INPUT_DEVICE_TOUCH", "WLR_INPUT_DEVICE_TABLET",
     "WLR_INPUT_DEVICE_VIRTUAL_KEYBOARD"}

\* handle_new_input: the backend attached device d, whose preferred output
\* is output_name (NULL when it has none); the switch on its type.
handle_new_input(d, type, keymap, output_name, alloc_ok) ==
    /\ Dispatching
    /\ dev[d] = Detached
    /\ dev' = [dev EXCEPT ![d] = [type |-> type,
                                  keymap |-> IF type = "WLR_INPUT_DEVICE_KEYBOARD"
                                             THEN keymap ELSE "none",
                                  output_name |-> output_name]]
    /\ ev' = [h |-> "handle_new_input", dev |-> d, type |-> type, caps_before |-> caps]
    /\ CASE type = "WLR_INPUT_DEVICE_KEYBOARD" ->
                handle_new_keyboard(d, type, keymap, output_name, alloc_ok)
         [] type = "WLR_INPUT_DEVICE_POINTER" -> handle_new_pointer(d, output_name, alloc_ok)
         [] type = "WLR_INPUT_DEVICE_TOUCH" -> handle_new_touch(d, output_name, alloc_ok)
         [] OTHER -> /\ calls' = <<>>
                     /\ UNCHANGED <<keyboard_groups, pointers, touch, caps, cursor_image, input_map>>
    /\ UNCHANGED <<touchVars, dragVars, viewVars, focusVars, crashed, outputVars, termVars, keyVars, idleVars, startVars, mainVars>>

\* What the removal of device d sees on entry: whether d was attached by the
\* handler that ran just before, and the capabilities before that attach.
RemovalSeen(d) ==
    [h |-> "input_device_destroy", dev |-> d, type |-> dev[d].type,
     attach_caps |-> IF ev.h = "handle_new_input" /\ ev.dev = d
                     THEN <<ev.caps_before>> ELSE <<>>]

handle_pointer_destroy(d) ==
    /\ pointers' = Without(pointers, d)
    /\ update_capabilities(keyboard_groups, Without(pointers, d), touch)
    /\ calls' = <<Call("handle_pointer_destroy", d), Call("update_capabilities", 0)>>
    /\ UNCHANGED <<keyboard_groups, touch>>

handle_touch_destroy(d) ==
    /\ touch' = Without(touch, d)
    /\ update_capabilities(keyboard_groups, pointers, Without(touch, d))
    /\ calls' = <<Call("handle_touch_destroy", d), Call("update_capabilities", 0)>>
    /\ UNCHANGED <<keyboard_groups, pointers>>

\* A keyboard leaves: gf_keyboard_group_add registered no destroy listener
\* (group->destroy is never set nor added to a signal), so no handler of the
\* seat runs; wlroots alone takes the keyboard out of its wlr_keyboard_group.
keyboard_device_destroy(d) ==
    /\ keyboard_groups' = [i \in 1..Len(keyboard_groups) |->
                              [keyboard_groups[i] EXCEPT !.devices = @ \ {d}]]
    /\ calls' = <<>>
    /\ UNCHANGED <<pointers, touch, caps, cursor_image>>

\* The backend removed device d: the destroy listener registered for it runs.
input_device_destroy(d) ==
    /\ Destroying
    /\ dev[d] # Detached
    /\ dev' = [dev EXCEPT ![d] = Detached]
    /\ ev' = RemovalSeen(d)
    /\ IF \E i \in 1..Len(pointers) : pointers[i] = d
       THEN handle_pointer_destroy(d)
       ELSE IF \E i \in 1..Len(touch) : touch[i] = d
       THEN handle_touch_destroy(d)
       ELSE keyboard_device_destroy(d)
    /\ input_map' = [input_map EXCEPT ![d] = NULL]
    /\ UNCHANGED <<touchVars, dragVars, viewVars, focusVars, crashed, outputVars, termVars, keyVars, idleVars, startVars, mainVars>>

\* ----------------------------------------------------- seat.c touch events
TouchIds == 0..MaxTouchId
Coords == 0..MaxCoord

\* handle_touch_down: the touch point and its position are recorded and the
\* idle notifier is told of the activity.
handle_touch_down(id, x, y) ==
    /\ Dispatching
    /\ touch_id' = id
    /\ touch_lx' = x
    /\ touch_ly' = y
    /\ ev' = [h |-> "handle_touch_down", touch_id |-> id]
    /\ calls' = <<Call("wlr_idle_notifier_v1_notify_activity", 0)>>
    /\ UNCHANGED <<dev, keyboard_groups, pointers, touch, caps, cursor_image, input_map, dragVars>>
    /\ UNCHANGED <<viewVars, focusVars, crashed, outputVars, termVars, keyVars, idleVars, startVars, mainVars>>

\* handle_touch_up: only the idle notifier is told.
handle_touch_up(id) ==
    /\ Dispatching
    /\ ev' = [h |-> "handle_touch_up", touch_id |-> id]
    /\ calls' = <<Call("wlr_idle_notifier_v1_notify_activity", 0)>>
    /\ UNCHANGED <<viewVars, focusVars, crashed, seatVars, outputVars, termVars, keyVars, idleVars, startVars, mainVars>>

\* handle_touch_motion: the position follows the touch point recorded by the
\* last touch down; the idle notifier is told.
handle_touch_motion(id, x, y) ==
    /\ Dispatching
    /\ IF id = touch_id
       THEN touch_lx' = x /\ touch_ly' = y
       ELSE UNCHANGED <<touch_lx, touch_ly>>
    /\ ev' = [h |-> "handle_touch_motion", touch_id |-> id]
    /\ calls' = <<Call("wlr_idle_notifier_v1_notify_activity", 0)>>
    /\ UNCHANGED <<touch_id, dev, keyboard_groups, pointers, touch, caps, cursor_image, input_map, dragVars>>
    /\ UNCHANGED <<viewVars, focusVars, crashed, outputVars, termVars, keyVars, idleVars, startVars, mainVars>>

\* handle_touch_frame: the frame is passed on to the seat.
handle_touch_frame ==
    /\ Dispatching
    /\ ev' = [h |-> "handle_touch_frame"]
    /\ calls' = <<Call("wlr_seat_touch_notify_frame", 0)>>
    /\ UNCHANGED <<viewVars, focusVars, crashed, seatVars, outputVars, termVars, keyVars, idleVars, startVars, mainVars>>

\* ------------------------------------------------------ seat.c drag icons
Offsets == 0..MaxOffset

DragOutcomes == {"alloc_failed", "scene_failed", "ok"}

\* Whether a freed record is linked in the list: wl_list_insert at the head
\* and wl_list_remove of a neighbour then write into freed memory.
HasFreed(icons) == \E i \in 1..Len(icons) : icons[i].freed

HasLive(icons) == \E i \in 1..Len(icons) : ~icons[i].freed

\* drag_icon_update_position: the scene node of the record goes to the cursor
\* position plus the icon's offset.
drag_icon_update_position(drag_icon) ==
    [drag_icon EXCEPT !.x = cursor_x + drag_icon.sx, !.y = cursor_y + drag_icon.sy]

\* handle_start_drag for a drag whose icon has the offset (sx, sy); the seat
\* has one drag at a time.  The record is linked at the head before the scene
\* tree is made; when that fails the record is freed but not unlinked.
handle_start_drag(sx, sy, outcome) ==
    LET drag_icon == [sx |-> sx, sy |-> sy, x |-> 0, y |-> 0, freed |-> FALSE] IN
    /\ Dispatching
    /\ ~HasLive(drag_icons)
    /\ Len(drag_icons) < MaxDragIcons
    /\ ev' = [h |-> "handle_start_drag", outcome |-> outcome, before |-> drag_icons]
    /\ IF outcome = "alloc_failed"
       THEN /\ calls' = <<>>
            /\ UNCHANGED <<drag_icons, crashed>>
       ELSE /\ IF HasFreed(drag_icons) THEN crashed' \in BOOLEAN ELSE UNCHANGED crashed
            /\ IF outcome = "scene_failed"
               THEN /\ drag_icons' = <<[drag_icon EXCEPT !.freed = TRUE]>> \o drag_icons
                    /\ calls' = <<Call("wl_list_insert", 0),
                                  Call("wlr_scene_drag_icon_create", 0),
                                  Call("free", 0)>>
               ELSE /\ drag_icons' = <<drag_icon_update_position(drag_icon)>> \o drag_icons
                    /\ calls' = <<Call("wl_list_insert", 0),
                                  Call("wlr_scene_drag_icon_create", 0),
                                  Call("drag_icon_update_position", 0)>>
    /\ UNCHANGED <<dev, keyboard_groups, pointers, touch, caps, cursor_image, input_map, touchVars, cursor_x, cursor_y>>
    /\ UNCHANGED <<viewVars, focusVars, outputVars, termVars, keyVars, idleVars, startVars, mainVars>>

\* handle_drag_icon_destroy: the i-th record of the list, a live one, is
\* unlinked and freed.
handle_drag_icon_destroy(i) ==
    /\ Destroying
    /\ i \in 1..Len(drag_icons)
    /\ ~drag_icons[i].freed
    /\ ev' = [h |-> "handle_drag_icon_destroy", i |-> i, before |-> drag_icons]
    /\ drag_icons' = RemoveAt(drag_icons, i)
    /\ IF HasFreed(drag_icons) THEN crashed' \in BOOLEAN ELSE UNCHANGED crashed
    /\ calls' = <<Call("wl_list_remove", i), Call("free", i)>>
    /\ UNCHANGED <<dev, keyboard_groups, pointers, touch, caps, cursor_image, input_map, touchVars, cursor_x, cursor_y>>
    /\ UNCHANGED <<viewVars, focusVars, outputVars, termVars, keyVars, idleVars, startVars, mainVars>>

\* ------------------------------------------------------------ termination
\* The termination state a handler reads and writes.
TermState == [terminated |-> terminated, run |-> run, terminate_calls |-> terminate_calls]

SetTermState(t) ==
    /\ terminated' = t.terminated
    /\ run' = t.run
    /\ terminate_calls' = t.terminate_calls

\* server_terminate that sets the flag itself when it stops the display.
server_terminate_check_then_set(t) ==
    IF t.terminated
    THEN t
    ELSE [terminated |-> TRUE, run |-> FALSE,
          terminate_calls |-> IF t.terminate_calls < MaxTerminateCalls
                              THEN t.terminate_calls + 1 ELSE t.terminate_calls]

\* server_terminate: nothing when the flag is set; otherwise the display is told
\* to stop (wl_display_terminate clears its run flag).  The flag is not written.
server_terminate(t) ==
    IF t.terminated
    THEN t
    ELSE [t EXCEPT !.run = FALSE,
                   !.terminate_calls = IF @ < MaxTerminateCalls THEN @ + 1 ELSE @]

\* The calls one server_terminate makes.
server_terminate_calls(t) ==
    IF t.terminated
    THEN <<Call("server_terminate", 0)>>
    ELSE <<Call("server_terminate", 0), Call("wl_display_terminate", 0)>>

\* ---------------------------------------------------------------- outputs
OutputModes == {"GAMEFRAME_MULTI_OUTPUT_MODE_EXTEND", "GAMEFRAME_MULTI_OUTPUT_MODE_LAST"}

\* The backends an output can come from; x11 outputs exist in builds with
\* WLR_HAS_X11_BACKEND only.
OutputKinds == {"drm", "wl", "x11"}

\* Only Wayland-hosted outputs taken as nested.
is_nested_output_wl_only(output) == output.kind = "wl"

is_nested_output(output) == output.kind = "wl" \/ output.kind = "x11"

\* A variant of the layout-change listener that only broadcasts the
\* configuration.
handle_output_layout_change_config_only ==
    <<Call("handle_output_layout_change", 0),
      Call("update_output_manager_config", 0)>>

\* handle_output_layout_change, the listener of the layout's change signal
\* (emitted inside wlr_output_layout_add_auto and wlr_output_layout_remove when
\* an output enters or leaves the layout): the calls it makes.
handle_output_layout_change ==
    <<Call("handle_output_layout_change", 0),
      Call("view_position_all", 0),
      Call("update_output_manager_config", 0)>>

\* How far handle_new_output gets: which of wlr_output_init_render, calloc,
\* wlr_scene_output_create and wlr_output_commit_state is the first to fail.
NewOutputOutcomes == {"render_failed", "alloc_failed", "scene_failed", "commit_failed", "ok"}

\* The names outputs are hotplugged under (wlr_output->name).
OutputNames == 1..MaxNames

\* What handle_new_output reads of the server's configuration and of the new
\* wlr_output: server->nested_width and nested_height, the modes list (modes
\* 1..modes, in list order), the mode flagged preferred (0 when none is) and
\* the modes with which wlr_output_test_state succeeds.
Hotplugs ==
    [nested_width : {0, 1}, nested_height : {0, 1}, modes : 0..MaxModes,
     preferred : 0..MaxModes, passes : SUBSET (1..MaxModes)]

IsHotplug(hw) ==
    /\ hw \in Hotplugs
    /\ hw.preferred <= hw.modes
    /\ hw.passes \subseteq 1..hw.modes

\* An output without modes on a server without a nested size.
PlainHotplug ==
    [nested_width |-> 0, nested_height |-> 0, modes |-> 0, preferred |-> 0, passes |-> {}]

\* wlr_output_preferred_mode: the mode flagged preferred, else the first of
\* the list, NULL for an empty list.
wlr_output_preferred_mode(hw) ==
    IF hw.modes = 0 THEN NULL
    ELSE IF hw.preferred # 0 THEN hw.preferred ELSE 1

\* The wl_list_for_each over the modes after the preferred mode failed the
\* test: from mode i on, with `cur` the mode now in the state and `tested` the
\* modes tested so far.
RECURSIVE try_other_modes(_, _, _, _, _)
try_other_modes(hw, preferred_mode, i, cur, tested) ==
    IF i > hw.modes THEN [kind |-> "mode", mode |-> cur, tested |-> tested]
    ELSE IF i = preferred_mode
    THEN try_other_modes(hw, preferred_mode, i + 1, cur, tested)
    ELSE IF i \in hw.passes
    THEN [kind |-> "mode", mode |-> i, tested |-> tested \cup {i}]
    ELSE try_other_modes(hw, preferred_mode, i + 1, i, tested \cup {i})

\* The preferred mode put in the state without any test.
new_output_state_untested(hw) ==
    IF hw.nested_width > 0 /\ hw.nested_height > 0
    THEN [kind |-> "custom", mode |-> NULL, tested |-> {}]
    ELSE IF hw.modes = 0
    THEN [kind |-> "none", mode |-> NULL, tested |-> {}]
    ELSE [kind |-> "mode", mode |-> wlr_output_preferred_mode(hw), tested |-> {}]

\* The wlr_output_state handle_new_output builds before its commit: a custom
\* mode, one of the output's modes or no mode, and which modes were tested.
new_output_state(hw) ==
    IF hw.nested_width > 0 /\ hw.nested_height > 0
    THEN [kind |-> "custom", mode |-> NULL, tested |-> {}]
    ELSE IF hw.modes = 0
    THEN [kind |-> "none", mode |-> NULL, tested |-> {}]
    ELSE LET preferred_mode == wlr_output_preferred_mode(hw) IN
         IF preferred_mode \in hw.passes
         THEN [kind |-> "mode", mode |-> preferred_mode, tested |-> {preferred_mode}]
         ELSE try_other_modes(hw, preferred_mode, 1, preferred_mode, {preferred_mode})

\* handle_new_output.  When render setup or the allocation fails the handler
\* returns with no gf_output made, so the server never hears of that output
\* again.  Otherwise the record goes to the head of the list; without a
\* scene_output the handler returns there.  A successful commit enables the
\* output and adds it to the layout (whose change listener repositions the
\* views); no other output is touched, in either multi-output mode.
handle_new_output(kind, name, hw, outcome) ==
    LET render_ok == outcome # "render_failed"
        alloc_ok == outcome # "alloc_failed"
        scene_ok == outcome # "scene_failed"
        commit_ok == outcome # "commit_failed"
    IN
    /\ Dispatching
    /\ Len(outputs) < MaxOutputs
    /\ IsHotplug(hw)
    /\ ev' = [h |-> "handle_new_output", outcome |-> outcome, hw |-> hw,
              state |-> IF render_ok /\ alloc_ok /\ scene_ok
                        THEN <<new_output_state(hw)>> ELSE <<>>]
    /\ IF ~render_ok \/ ~alloc_ok
       THEN /\ calls' = <<>>
            /\ UNCHANGED outputs
       ELSE IF ~scene_ok
       THEN /\ outputs' = <<[kind |-> kind, name |-> name, enabled |-> FALSE,
                             scene_output |-> FALSE, in_layout |-> FALSE]>> \o outputs
            /\ calls' = <<>>
       ELSE /\ outputs' = <<[kind |-> kind, name |-> name, enabled |-> commit_ok,
                             scene_output |-> TRUE, in_layout |-> commit_ok]>> \o outputs
            /\ calls' = (IF commit_ok
                         THEN <<Call("output_layout_add_auto", 1)>>
                              \o handle_output_layout_change
                         ELSE <<>>)
                        \o <<Call("view_position_all", 0),
                             Call("update_output_manager_config", 0)>>
    /\ UNCHANGED <<output_mode, termVars, crashed>>
    /\ UNCHANGED <<viewVars, focusVars, seatVars, keyVars, idleVars, startVars, mainVars>>

\* output_destroy, run by handle_output_destroy when the backend destroys the
\* i-th output of the list.  The record leaves the list and the layout; then
\* either the server is told to terminate, or under `last` the head of the
\* remaining list is enabled (output_enable) and the views are repositioned.
\* output_enable commits the enabled state and, when the commit succeeds, calls
\* output_layout_add_auto, whose assert aborts the process when the output has
\* no scene_output.  The outputs named in `calls` are positions in the
\* remaining list.
output_destroy(i, commit_ok) ==
    LET output == outputs[i]
        was_nested_output == is_nested_output(output)
        rest == RemoveAt(outputs, i)
        removed == IF output.in_layout
                   THEN handle_output_layout_change ELSE <<>>
        prev == rest[1]
    IN
    /\ Destroying
    /\ i \in 1..Len(outputs)
    /\ ev' = [h |-> "output_destroy", i |-> i, kind |-> output.kind,
              was_active |-> (i = 1 /\ output.enabled)]
    /\ IF rest = <<>> /\ was_nested_output
       THEN /\ SetTermState(server_terminate(TermState))
            /\ outputs' = rest
            /\ calls' = removed \o server_terminate_calls(TermState)
            /\ UNCHANGED crashed
       ELSE IF output_mode = "GAMEFRAME_MULTI_OUTPUT_MODE_LAST" /\ rest # <<>>
       THEN /\ UNCHANGED termVars
            /\ IF ~commit_ok
               THEN /\ outputs' = rest
                    /\ calls' = removed \o
                                <<Call("output_enable", 1),
                                  Call("update_output_manager_config", 0),
                                  Call("view_position_all", 0)>>
                    /\ UNCHANGED crashed
               ELSE IF ~prev.scene_output
               THEN /\ outputs' = [rest EXCEPT ![1].enabled = TRUE]
                    /\ calls' = removed \o
                                <<Call("output_enable", 1),
                                  Call("output_layout_add_auto", 1)>>
                    /\ crashed' = TRUE
               ELSE /\ outputs' = [rest EXCEPT ![1].enabled = TRUE,
                                               ![1].in_layout = TRUE]
                    /\ calls' = removed \o
                                <<Call("output_enable", 1),
                                  Call("output_layout_add_auto", 1)>>
                                \o (IF prev.in_layout THEN <<>>
                                    ELSE handle_output_layout_change)
                                \o <<Call("update_output_manager_config", 0),
                                     Call("view_position_all", 0)>>
                    /\ UNCHANGED crashed
       ELSE /\ outputs' = rest
            /\ calls' = removed
            /\ UNCHANGED <<termVars, crashed>>
    /\ UNCHANGED output_mode
    /\ UNCHANGED <<viewVars, focusVars, seatVars, keyVars, idleVars, startVars, mainVars>>

\* ---------------------------------------------------- output configuration
\* A configuration request of the output manager: for each output of the
\* list, whether the request wants it enabled.
ConfigRequests(n) == [1..n -> BOOLEAN]

\* How far output_config_apply gets: wlr_output_configuration_v1_build_state
\* returns NULL, wlr_output_swapchain_manager_prepare fails,
\* wlr_scene_output_build_state fails for the first state, wlr_backend_commit
\* fails, or nothing fails.
ConfigOutcomes == {"build_failed", "prepare_failed", "scene_build_failed", "commit_failed", "ok"}

\* The call of the backend commit made by output_config_apply.
backend_commit_call == <<Call("wlr_backend_commit", 0)>>

\* A variant of output_config_apply that does not look at test_only.
output_config_apply_commits_tests(outs, request, test_only, outcome) ==
    IF outcome \in {"build_failed", "prepare_failed", "scene_build_failed"}
    THEN [ok |-> FALSE, crashed |-> FALSE, outputs |-> outs, calls |-> <<>>]
    ELSE [ok |-> outcome = "ok", crashed |-> FALSE,
          outputs |-> IF outcome = "ok"
                      THEN [i \in 1..Len(outs) |-> [outs[i] EXCEPT !.enabled = request[i]]]
                      ELSE outs,
          calls |-> backend_commit_call]

\* output_config_apply: what it returns, whether it kills the process, the
\* outputs afterwards and the calls it makes.  Nothing is committed when the
\* states cannot be built, when the swapchains cannot be prepared or when the
\* request is a test.  Otherwise each state is built from the scene output of
\* its gf_output, which is read through a null pointer when that output has no
\* scene_output; then the states are committed to the backend in one go.  The
\* output layout is not touched.
output_config_apply(outs, request, test_only, outcome) ==
    IF outcome = "build_failed"
    THEN [ok |-> FALSE, crashed |-> FALSE, outputs |-> outs, calls |-> <<>>]
    ELSE IF outcome = "prepare_failed"
    THEN [ok |-> FALSE, crashed |-> FALSE, outputs |-> outs, calls |-> <<>>]
    ELSE IF test_only
    THEN [ok |-> TRUE, crashed |-> FALSE, outputs |-> outs, calls |-> <<>>]
    ELSE IF outcome = "scene_build_failed" /\ outs[1].scene_output
    THEN [ok |-> FALSE, crashed |-> FALSE, outputs |-> outs, calls |-> <<>>]
    ELSE IF \E i \in 1..Len(outs) : ~outs[i].scene_output
    THEN [ok |-> FALSE, crashed |-> TRUE, outputs |-> outs, calls |-> <<>>]
    ELSE IF outcome = "scene_build_failed"
    THEN [ok |-> FALSE, crashed |-> FALSE, outputs |-> outs, calls |-> <<>>]
    ELSE [ok |-> outcome = "ok", crashed |-> FALSE,
          outputs |-> IF outcome = "ok"
                      THEN [i \in 1..Len(outs) |-> [outs[i] EXCEPT !.enabled = request[i]]]
                      ELSE outs,
          calls |-> backend_commit_call]

\* handle_output_commit, run for each output of a successful backend commit:
\* the committed state carries the enabled flag, so the configuration is
\* broadcast again.
handle_output_commit(n) ==
    [i \in 1..n |-> Call("update_output_manager_config", 0)]

\* The body shared by handle_output_manager_apply and
\* handle_output_manager_test: run output_config_apply, then tell the
\* requester that the configuration succeeded, whatever was returned.
output_manager_request(handler, test_only, request, outcome) ==
    LET r == output_config_apply(outputs, request, test_only, outcome) IN
    /\ Dispatching
    /\ outputs # <<>>
    /\ ev' = [h |-> handler, request |-> request, ok |-> r.ok]
    /\ outputs' = r.outputs
    /\ crashed' = r.crashed
    /\ calls' = r.calls
                \o (IF r.ok /\ ~test_only THEN handle_output_commit(Len(outputs)) ELSE <<>>)
                \o (IF r.crashed THEN <<>>
                    ELSE <<Call("wlr_output_configuration_v1_send_succeeded", 0)>>)
    /\ UNCHANGED <<output_mode, termVars>>
    /\ UNCHANGED <<viewVars, focusVars, seatVars, keyVars, idleVars, startVars, mainVars>>

handle_output_manager_apply(request, outcome) ==
    output_manager_request("handle_output_manager_apply", FALSE, request, outcome)

handle_output_manager_test(request, outcome) ==
    output_manager_request("handle_output_manager_test", TRUE, request, outcome)

\* ------------------------------------------------------------ key events
XKB_KEY_Escape == 65307
XKB_KEY_XF86Switch_VT_1 == 269024769
XKB_KEY_XF86Switch_VT_12 == 269024780

\* The key symbols tried: Escape, the first and the last VT-switch symbol and
\* the symbols just outside that range.
KeySyms == {XKB_KEY_Escape,
            XKB_KEY_XF86Switch_VT_1 - 1, XKB_KEY_XF86Switch_VT_1,
            XKB_KEY_XF86Switch_VT_12, XKB_KEY_XF86Switch_VT_12 + 1}

\* What xkb_state_key_get_syms can give for one key: nsyms symbols.
SymSeqs == UNION {[1..n -> KeySyms] : n \in 0..MaxSyms}

\* The modifier masks tried: one with the Alt bit and one without it.
ModifierSets == {{"WLR_MODIFIER_SHIFT"}, {"WLR_MODIFIER_SHIFT", "WLR_MODIFIER_ALT"}}

KeyStates == {"WL_KEYBOARD_KEY_STATE_PRESSED", "WL_KEYBOARD_KEY_STATE_RELEASED"}

\* wlr_backend_autocreate always hands out a multi backend.
wlr_backend_is_multi == TRUE

\* A VT-switch symbol counts as handled only when the VT change can be made.
handle_keybinding_needs_session(sym, r) ==
    IF sym = XKB_KEY_Escape
    THEN [handled |-> TRUE,
          term |-> server_terminate(r.term),
          calls |-> r.calls \o server_terminate_calls(r.term)]
    ELSE IF allow_vt_switch /\ has_session
            /\ sym >= XKB_KEY_XF86Switch_VT_1 /\ sym <= XKB_KEY_XF86Switch_VT_12
    THEN [handled |-> TRUE,
          term |-> r.term,
          calls |-> r.calls
                    \o <<Call("wlr_session_change_vt",
                               sym - XKB_KEY_XF86Switch_VT_1 + 1),
                         Call("wlr_idle_notifier_v1_notify_activity", 0)>>]
    ELSE [r EXCEPT !.handled = FALSE]

\* handle_keybinding for one symbol.  r carries what the handler has done so
\* far: `handled` is this call's return value, `term` the termination state,
\* `calls` the calls made.
handle_keybinding(sym, r) ==
    IF sym = XKB_KEY_Escape
    THEN [handled |-> TRUE,
          term |-> server_terminate(r.term),
          calls |-> r.calls \o server_terminate_calls(r.term)]
    ELSE IF allow_vt_switch /\ sym >= XKB_KEY_XF86Switch_VT_1
                            /\ sym <= XKB_KEY_XF86Switch_VT_12
    THEN [handled |-> TRUE,
          term |-> r.term,
          calls |-> r.calls
                    \o (IF wlr_backend_is_multi /\ has_session
                        THEN <<Call("wlr_session_change_vt",
                                    sym - XKB_KEY_XF86Switch_VT_1 + 1)>>
                        ELSE <<>>)
                    \o <<Call("wlr_idle_notifier_v1_notify_activity", 0)>>]
    ELSE [r EXCEPT !.handled = FALSE]

\* The loop of handle_key_event over syms[i .. nsyms]: each symbol's result
\* replaces `handled`.
RECURSIVE key_bindings(_, _, _)
key_bindings(syms, i, r) ==
    IF i > Len(syms) THEN r
    ELSE key_bindings(syms, i + 1, handle_keybinding(syms[i], r))

\* Key bindings tried whenever Alt is held, on a release as on a press.
try_keybindings_any_state(modifiers, state, syms, r0) ==
    IF "WLR_MODIFIER_ALT" \in modifiers THEN key_bindings(syms, 1, r0) ELSE r0

\* The first half of handle_key_event: key bindings are tried on a press with
\* Alt held.
try_keybindings(modifiers, state, syms, r0) ==
    IF "WLR_MODIFIER_ALT" \in modifiers /\ state = "WL_KEYBOARD_KEY_STATE_PRESSED"
    THEN key_bindings(syms, 1, r0)
    ELSE r0

\* handle_key_event, for a key of some keyboard group: an event that no key
\* binding handled goes to the client.
handle_key_event(modifiers, state, syms) ==
    LET r0 == [handled |-> FALSE, term |-> TermState, calls |-> <<>>]
        r == try_keybindings(modifiers, state, syms, r0)
    IN
    /\ Dispatching
    /\ ev' = [h |-> "handle_key_event", modifiers |-> modifiers,
              state |-> state, syms |-> syms]
    /\ SetTermState(r.term)
    /\ seat_keyboard' = IF r.handled THEN seat_keyboard ELSE TRUE
    /\ calls' = r.calls
                \o (IF r.handled THEN <<>>
                    ELSE <<Call("wlr_seat_set_keyboard", 0),
                           Call("wlr_seat_keyboard_notify_key", 0)>>)
                \o <<Call("wlr_idle_notifier_v1_notify_activity", 0)>>
    /\ UNCHANGED <<viewVars, focused_surface, seatVars, outputVars, keyVars, idleVars, startVars,
                   mainVars, crashed>>

\* ------------------------------------------------------------------- main
\* handle_signal, registered for SIGINT and SIGTERM.
handle_signal(signal) ==
    /\ Dispatching
    /\ ev' = [h |-> "handle_signal", signal |-> signal]
    /\ IF signal \in {"SIGINT", "SIGTERM"}
       THEN /\ SetTermState(server_terminate(TermState))
            /\ calls' = server_terminate_calls(TermState)
       ELSE /\ UNCHANGED termVars
            /\ calls' = <<>>
    /\ UNCHANGED <<viewVars, focusVars, seatVars, outputVars, keyVars, idleVars, startVars, mainVars, crashed>>

\* A variant of sigchld_handler that does not ask the server to terminate.
sigchld_handler_no_terminate ==
    /\ Dispatching
    /\ sigchld_open
    /\ ev' = [h |-> "sigchld_handler"]
    /\ sigchld_open' = FALSE
    /\ return_app_code' = TRUE
    /\ calls' = <<>>
    /\ UNCHANGED <<pc, ret, app_ret, client_fate, exit_code>>
    /\ UNCHANGED <<viewVars, focusVars, seatVars, outputVars, termVars, keyVars,
                   idleVars, startVars, crashed>>

\* sigchld_handler: the client's end of the pipe was closed (the client is
\* gone).  The read end is closed, so the event comes once.
sigchld_handler ==
    /\ Dispatching
    /\ sigchld_open
    /\ ev' = [h |-> "sigchld_handler"]
    /\ sigchld_open' = FALSE
    /\ return_app_code' = TRUE
    /\ SetTermState(server_terminate(TermState))
    /\ calls' = server_terminate_calls(TermState)
    /\ UNCHANGED <<pc, ret, app_ret, client_fate, exit_code>>
    /\ UNCHANGED <<viewVars, focusVars, seatVars, outputVars, keyVars, idleVars, startVars, crashed>>

\* How a child can be found by waitpid, and the status word for each.
NoFate == [kind |-> "none"]

ClientFates ==
    [kind : {"exited"}, n : 0..255]
    \cup [kind : {"signaled"}, sig : 1..MaxSignal, core : BOOLEAN]
    \cup [kind : {"stopped"}, sig : 1..MaxSignal]
    \cup {[kind |-> "continued"]}

\* The child of spawn_primary_client whose execvp failed leaves with _exit(1):
\* how waitpid finds it.
exec_failure_fate_zero == [kind |-> "exited", n |-> 0]

exec_failure_fate == [kind |-> "exited", n |-> 1]

WaitStatus(fate) ==
    CASE fate.kind = "exited" -> fate.n * 256
      [] fate.kind = "signaled" -> fate.sig + (IF fate.core THEN 128 ELSE 0)
      [] fate.kind = "stopped" -> fate.sig * 256 + 127
      [] OTHER -> 65535

\* The <sys/wait.h> macros.
WTERMSIG(status) == status % 128
WEXITSTATUS(status) == (status \div 256) % 256
WIFEXITED(status) == WTERMSIG(status) = 0
WIFSIGNALED(status) ==
    LET t == WTERMSIG(status) + 1
        signed_char == IF t >= 128 THEN t - 256 ELSE t
    IN  signed_char \div 2 > 0

\* The signal number returned as it is.
cleanup_primary_client_no_offset(status) ==
    IF WIFEXITED(status) THEN WEXITSTATUS(status)
    ELSE IF WIFSIGNALED(status) THEN WTERMSIG(status)
    ELSE 0

\* cleanup_primary_client, given the status waitpid stored.
cleanup_primary_client(status) ==
    IF WIFEXITED(status) THEN WEXITSTATUS(status)
    ELSE IF WIFSIGNALED(status) THEN 128 + WTERMSIG(status)
    ELSE 0

\* wl_display_run returns once the run flag is cleared and the handlers of the
\* current dispatch are done.
wl_display_run_returns ==
    /\ pc = "run" /\ ~run /\ ~crashed
    /\ pc' = "after_run"
    /\ ev' = [h |-> "wl_display_run_returns"]
    /\ calls' = <<>>
    /\ UNCHANGED <<ret, app_ret, return_app_code, sigchld_open, client_fate, exit_code>>
    /\ UNCHANGED <<viewVars, focusVars, seatVars, outputVars, termVars, keyVars, idleVars, startVars, crashed>>

\* A variant of main that never waits for the client.
main_after_run_never_waits(fate) ==
    /\ pc = "after_run" /\ ~crashed
    /\ fate = NoFate
    /\ calls' = <<>>
    /\ client_fate' = fate
    /\ pc' = "end"
    /\ ev' = [h |-> "main_after_run"]
    /\ UNCHANGED <<ret, app_ret, return_app_code, sigchld_open, exit_code>>
    /\ UNCHANGED <<viewVars, focusVars, seatVars, outputVars, termVars, keyVars,
                   idleVars, startVars, crashed>>

\* A variant of main that waits for the client whether or not its liveness
\* event was seen.
main_after_run_always_waits(fate) ==
    /\ pc = "after_run" /\ ~crashed
    /\ fate \in ClientFates
    /\ app_ret' = cleanup_primary_client(WaitStatus(fate))
    /\ calls' = <<Call("cleanup_primary_client", 0)>>
    /\ client_fate' = fate
    /\ pc' = "end"
    /\ ev' = [h |-> "main_after_run"]
    /\ UNCHANGED <<ret, return_app_code, sigchld_open, exit_code>>
    /\ UNCHANGED <<viewVars, focusVars, seatVars, outputVars, termVars, keyVars,
                   idleVars, startVars, crashed>>

\* main, from the return of wl_display_run to the label `end`: the client is
\* waited for when its liveness event was seen.  waitpid is taken to succeed
\* (the client is a child of this process); its result is not looked at.  It
\* returns once the client has terminated.
main_after_run(fate) ==
    /\ pc = "after_run" /\ ~crashed
    /\ IF return_app_code
       THEN /\ fate \in ClientFates
            /\ spawned = "exec_failed" => fate = exec_failure_fate
            /\ app_ret' = cleanup_primary_client(WaitStatus(fate))
            /\ calls' = <<Call("cleanup_primary_client", 0)>>
       ELSE /\ fate = NoFate
            /\ calls' = <<>>
            /\ UNCHANGED app_ret
    /\ client_fate' = fate
    /\ client_exited' = (client_exited \/ return_app_code)
    /\ pc' = "end"
    /\ ev' = [h |-> "main_after_run"]
    /\ UNCHANGED <<ret, return_app_code, sigchld_open, exit_code, cred, setup_failure, spawned>>
    /\ UNCHANGED <<viewVars, focusVars, seatVars, outputVars, termVars, keyVars, idleVars, crashed>>

\* main, the rest of `end`: once the clients' views, the outputs and the input
\* devices are destroyed, wl_display_destroy runs handle_display_destroy, which
\* sets the flag, and main returns ret ? ret : app_ret.  The process's exit
\* status is the low eight bits of that.
main_end ==
    /\ pc = "end" /\ ~crashed
    /\ views = {} /\ outputs = <<>> /\ \A d \in Devices : dev[d] = Detached
    /\ terminated' = TRUE
    /\ exit_code' = <<(IF ret # 0 THEN ret ELSE app_ret) % 256>>
    /\ pc' = "exited"
    /\ ev' = [h |-> "main_end"]
    /\ calls' = <<Call("wl_display_destroy", 0), Call("handle_display_destroy", 0)>>
    /\ UNCHANGED <<run, terminate_calls, ret, app_ret, return_app_code,
                   sigchld_open, client_fate>>
    /\ UNCHANGED <<viewVars, focusVars, seatVars, outputVars, keyVars, idleVars, startVars, crashed>>

\* ---------------------------------------------------------------- startup
\* The user and group ids told apart: root (id 0) and an ordinary user.
Ids == {"root", "user"}

Credentials == [uid : Ids, euid : Ids, suid : Ids, gid : Ids, egid : Ids, sgid : Ids]

\* The credentials a process can have when main begins: exec has just copied
\* the effective ids to the saved ids.
StartCreds == {c \in Credentials : c.suid = c.euid /\ c.sgid = c.egid}

\* An ordinary user running a binary without setuid or setgid bit.
UserCred ==
    [uid |-> "user", euid |-> "user", suid |-> "user",
     gid |-> "user", egid |-> "user", sgid |-> "user"]

\* setuid(2): a process whose effective user is root sets all three user ids;
\* any other process may only make one of its own user ids the effective one.
setuid(c, u) ==
    IF c.euid = "root"
    THEN [ok |-> TRUE, cred |-> [c EXCEPT !.uid = u, !.euid = u, !.suid = u]]
    ELSE IF u \in {c.uid, c.euid, c.suid}
    THEN [ok |-> TRUE, cred |-> [c EXCEPT !.euid = u]]
    ELSE [ok |-> FALSE, cred |-> c]

\* setgid(2), likewise; the privilege to set every group id goes with the
\* effective user root.
setgid(c, g) ==
    IF c.euid = "root"
    THEN [ok |-> TRUE, cred |-> [c EXCEPT !.gid = g, !.egid = g, !.sgid = g]]
    ELSE IF g \in {c.gid, c.egid, c.sgid}
    THEN [ok |-> TRUE, cred |-> [c EXCEPT !.egid = g]]
    ELSE [ok |-> FALSE, cred |-> c]

\* Root is held in, or can be restored from, one of the six ids.
HoldsOrCanRegainRoot(c) == "root" \in {c.uid, c.euid, c.suid, c.gid, c.egid, c.sgid}

\* drop_permissions: what it returns and the credentials it leaves.  With a
\* real user or group of root it only logs and returns true.  Otherwise, when
\* an effective id differs from the real one, the group and then the user are
\* set to the real ids (set_ok: these calls succeed); after that the attempt to
\* set the group or the user back to root must fail.
drop_permissions(c, set_ok) ==
    IF c.uid = "root" \/ c.gid = "root"
    THEN [ok |-> TRUE, cred |-> c]
    ELSE LET setid == c.uid # c.euid \/ c.gid # c.egid
             dropped == IF setid THEN setuid(setgid(c, c.gid).cred, c.uid).cred ELSE c
             regain_gid == setgid(dropped, "root")
             regain_uid == setuid(dropped, "root")
         IN  IF setid /\ ~set_ok THEN [ok |-> FALSE, cred |-> c]
             ELSE IF regain_gid.ok THEN [ok |-> FALSE, cred |-> regain_gid.cred]
             ELSE IF regain_uid.ok THEN [ok |-> FALSE, cred |-> regain_uid.cred]
             ELSE [ok |-> TRUE, cred |-> dropped]

\* The steps of main's setup that can fail, in the order main takes them.
SetupSteps ==
    <<"parse_args", "XDG_RUNTIME_DIR", "wl_display_create", "wlr_backend_autocreate",
      "drop_permissions", "renderer", "allocator", "output_layout", "scene",
      "compositor", "subcompositor", "data_device_manager", "primary_selection",
      "seat_create", "idle_inhibit", "xdg_shell", "xdg_decoration_manager",
      "output_manager", "socket", "wlr_backend_start">>

StepIndex(step) == CHOOSE i \in 1..Len(SetupSteps) : SetupSteps[i] = step

\* The failures the environment can cause; whether drop_permissions fails
\* follows from the credentials.
SetupFailures == {SetupSteps[i] : i \in 1..Len(SetupSteps)} \ {"drop_permissions"}

\* The failures on which main returns 1 at once.
ReturnsAtOnce ==
    {"parse_args", "XDG_RUNTIME_DIR", "wl_display_create", "socket", "wlr_backend_start"}

\* The objects main creates without looking at the result: the next statement
\* adds a listener to a signal of the object, through a null pointer when the
\* creation failed.
Unchecked == {"idle_inhibit", "xdg_shell", "xdg_decoration_manager", "output_manager"}

\* main, from its start to the point where the primary client is spawned.
\* `failure` is the first step the environment lets fail ("none": no step).
main_setup(failure, set_ok) ==
    LET d == drop_permissions(cred, set_ok)
        reaches_drop == failure = "none"
                        \/ StepIndex(failure) > StepIndex("drop_permissions")
        failed == IF reaches_drop /\ ~d.ok THEN "drop_permissions" ELSE failure
    IN
    /\ pc = "start" /\ ~crashed
    /\ cred' = IF reaches_drop THEN d.cred ELSE cred
    /\ setup_failure' = failed
    /\ ev' = [h |-> "main_setup", failure |-> failed]
    /\ calls' = IF reaches_drop THEN <<Call("drop_permissions", 0)>> ELSE <<>>
    /\ IF failed = "none"
       THEN /\ pc' = "spawn"
            /\ UNCHANGED <<ret, exit_code, crashed>>
       ELSE IF failed \in ReturnsAtOnce
       THEN /\ pc' = "exited"
            /\ exit_code' = <<1>>
            /\ UNCHANGED <<ret, crashed>>
       ELSE IF failed \in Unchecked
       THEN /\ crashed' = TRUE
            /\ UNCHANGED <<pc, ret, exit_code>>
       ELSE /\ ret' = 1
            /\ pc' = "end"
            /\ UNCHANGED <<exit_code, crashed>>
    /\ UNCHANGED <<app_ret, return_app_code, sigchld_open, client_fate, spawned, client_exited>>
    /\ UNCHANGED <<viewVars, focusVars, seatVars, outputVars, termVars, keyVars, idleVars>>

\* How far spawn_primary_client gets: pipe fails, fork fails, set_cloexec fails
\* in the parent after the fork, execvp fails in the child, or nothing fails.
SpawnOutcomes == {"pipe_failed", "fork_failed", "cloexec_failed", "exec_failed", "ok"}

\* What spawn_primary_client returns.  A failure of execvp happens in the
\* child, which leaves with _exit(1); the parent has returned true.
spawn_primary_client(outcome) == outcome \in {"exec_failed", "ok"}

\* main, from the end of the setup to wl_display_run: the primary client is
\* spawned when a command was given.
main_spawn(has_command, outcome) ==
    /\ pc = "spawn" /\ ~crashed
    /\ ev' = [h |-> "main_spawn"]
    /\ client_exited' = (has_command /\ outcome = "exec_failed")
    /\ IF has_command
       THEN /\ spawned' = outcome
            /\ calls' = <<Call("spawn_primary_client", 0)>>
            /\ IF spawn_primary_client(outcome)
               THEN /\ pc' = "run"
                    /\ sigchld_open' = TRUE
                    /\ UNCHANGED ret
               ELSE /\ pc' = "end"
                    /\ ret' = 1
                    /\ UNCHANGED sigchld_open
       ELSE /\ spawned' = "no_command"
            /\ calls' = <<>>
            /\ pc' = "end"
            /\ ret' = 1
            /\ UNCHANGED sigchld_open
    /\ UNCHANGED <<app_ret, return_app_code, client_fate, exit_code, cred, setup_failure>>
    /\ UNCHANGED <<viewVars, focusVars, seatVars, outputVars, termVars, keyVars, idleVars, crashed>>

\* The primary client process terminates, while the server is in or past
\* wl_display_run; its end of the liveness pipe is closed with it.
primary_client_exits ==
    /\ pc \in {"run", "after_run"} /\ ~crashed
    /\ spawned \in {"ok", "cloexec_failed"}
    /\ ~client_exited
    /\ client_exited' = TRUE
    /\ ev' = [h |-> "primary_client_exits"]
    /\ calls' = <<>>
    /\ UNCHANGED <<cred, setup_failure, spawned>>
    /\ UNCHANGED <<viewVars, focusVars, seatVars, outputVars, termVars, keyVars, idleVars, mainVars, crashed>>

\* -------------------------------------------------------- idle inhibitors
\* main creates the idle-inhibit manager and registers the new-inhibitor
\* listener, but never calls wl_list_init on server->inhibitors: the list head
\* keeps the null links of the zero-initialised struct gf_server.
inhibitors_initialised == FALSE

\* idle_inhibit_v1_check_active: the flag given to the idle notifier.
idle_inhibit_v1_check_active(list) == list # <<>>

\* handle_idle_inhibitor_v1_new: when the record cannot be allocated the
\* handler returns at once.  Otherwise wl_list_insert links the record behind
\* the list head; with a head that was never initialised it writes through the
\* head's null next pointer and the process is killed.
handle_idle_inhibitor_v1_new(token, alloc_ok) ==
    /\ Dispatching
    /\ token \notin live_inhibitors
    /\ live_inhibitors' = live_inhibitors \cup {token}
    /\ ev' = [h |-> "handle_idle_inhibitor_v1_new", token |-> token, alloc_ok |-> alloc_ok]
    /\ IF ~alloc_ok
         THEN /\ calls' = <<>>
              /\ UNCHANGED <<inhibitors, inhibited, crashed>>
         ELSE IF ~inhibitors_initialised
         THEN /\ crashed' = TRUE
              /\ calls' = <<Call("wl_list_insert", token)>>
              /\ UNCHANGED <<inhibitors, inhibited>>
         ELSE /\ inhibitors' = <<token>> \o inhibitors
              /\ inhibited' = idle_inhibit_v1_check_active(inhibitors')
              /\ calls' = <<Call("wl_list_insert", token),
                            Call("wlr_idle_notifier_v1_set_inhibited",
                                 IF inhibited' THEN 1 ELSE 0)>>
              /\ UNCHANGED crashed
    /\ UNCHANGED <<viewVars, focusVars, seatVars, outputVars, termVars, keyVars, startVars, mainVars>>

\* The destroy signal of a wlr_idle_inhibitor_v1.  handle_destroy is attached
\* only to the inhibitors that have a record: it unlinks and frees the record
\* and pushes the flag again.  An inhibitor without a record goes unnoticed.
idle_inhibitor_destroy(token) ==
    /\ Destroying
    /\ token \in live_inhibitors
    /\ live_inhibitors' = live_inhibitors \ {token}
    /\ LET tracked == \E i \in 1..Len(inhibitors) : inhibitors[i] = token IN
         /\ ev' = [h |-> "idle_inhibitor_destroy", token |-> token, tracked |-> tracked]
         /\ IF tracked
              THEN /\ inhibitors' = Without(inhibitors, token)
                   /\ inhibited' = idle_inhibit_v1_check_active(inhibitors')
                   /\ calls' = <<Call("wlr_idle_notifier_v1_set_inhibited",
                                      IF inhibited' THEN 1 ELSE 0)>>
              ELSE /\ calls' = <<>>
                   /\ UNCHANGED <<inhibitors, inhibited>>
    /\ UNCHANGED <<viewVars, focusVars, seatVars, outputVars, termVars, keyVars, startVars, mainVars, crashed>>

\* ---------------------------------------------------------- specification
InitViews ==
    /\ xwayland_parent = [x \in XwaylandViews |-> NULL]
    /\ views = {}
    /\ parent = [v \in Views |-> NULL]
    /\ mapped = {}
    /\ activated = {}
    /\ fullscreen = {}

InitFocus ==
    /\ focused_surface = NULL
    /\ seat_keyboard = FALSE

InitGhost ==
    /\ crashed = FALSE
    /\ ev = [h |-> "none"]
    /\ calls = <<>>

\* seat_create: the collections are empty and update_capabilities has run once.
InitSeat ==
    /\ dev = [d \in Devices |-> Detached]
    /\ keyboard_groups = <<>>
    /\ pointers = <<>>
    /\ touch = <<>>
    /\ caps = {}
    /\ cursor_image = "unset"
    /\ input_map = [d \in Devices |-> NULL]
    /\ touch_id = 0
    /\ touch_lx = 0
    /\ touch_ly = 0
    /\ cursor_x = 0
    /\ cursor_y = 0
    /\ drag_icons = <<>>

\* main: the output list is empty, the display runs, nothing is terminated.
InitOutputs == outputs = <<>>

InitTerm ==
    /\ terminated = FALSE
    /\ run = TRUE
    /\ terminate_calls = 0

\* main has spawned the primary client and enters wl_display_run.
InitMain ==
    /\ pc = "run"
    /\ ret = 0
    /\ app_ret = 0
    /\ return_app_code = FALSE
    /\ sigchld_open = TRUE
    /\ client_fate = NoFate
    /\ exit_code = <<>>

\* struct gf_server is zero-initialised: extend mode unless -m last is given,
\* no VT switching unless -s is given.  The session is that of a backend
\* started on the console.
GameDefault ==
    /\ game_width = DefaultGameWidth
    /\ game_height = DefaultGameHeight

ConfigDefault ==
    /\ output_mode = "GAMEFRAME_MULTI_OUTPUT_MODE_EXTEND"
    /\ allow_vt_switch = FALSE
    /\ has_session = TRUE
    /\ GameDefault

\* struct gf_server is zero-initialised: no inhibitor is recorded and the idle
\* notifier starts uninhibited.
InitIdle ==
    /\ inhibitors = <<>>
    /\ live_inhibitors = {}
    /\ inhibited = FALSE

\* main's setup went through for an ordinary user and the client was spawned.
InitStarted ==
    /\ cred = UserCred
    /\ setup_failure = "none"
    /\ spawned = "ok"
    /\ client_exited = FALSE

InitState ==
    /\ InitViews /\ InitFocus /\ InitSeat /\ InitOutputs /\ InitTerm /\ InitMain
    /\ InitIdle /\ InitStarted /\ InitGhost

Init == InitState /\ ConfigDefault

NextFocus ==
    \/ \E v \in Views : handle_new_xdg_toplevel(v)
    \/ \E v \in Views, p \in Views \cup {NULL} : xdg_toplevel_set_parent(v, p)
    \/ \E v \in Views : handle_xdg_toplevel_map(v)
    \/ \E v \in Views : handle_xdg_toplevel_unmap(v)
    \/ \E v \in Views : handle_xdg_toplevel_destroy(v)
    \/ handle_cursor_motion(0, 0)
    \/ handle_modifier_event

SpecFocus == Init /\ [][NextFocus]_vars

NextSeat ==
    \/ \E d \in Devices, type \in InputDeviceTypes, keymap \in Keymaps,
          alloc_ok \in BOOLEAN :
            handle_new_input(d, type, keymap, NULL, alloc_ok)
    \/ \E d \in Devices : input_device_destroy(d)

SpecSeat == Init /\ [][NextSeat]_vars

NextOutput ==
    \/ \E kind \in OutputKinds, outcome \in NewOutputOutcomes :
            handle_new_output(kind, 1, PlainHotplug, outcome)
    \/ \E i \in 1..MaxOutputs, commit_ok \in BOOLEAN : output_destroy(i, commit_ok)

\* parse_args: -m selects the multi-output mode.
InitOutput ==
    /\ InitState
    /\ output_mode \in OutputModes
    /\ allow_vt_switch = FALSE
    /\ has_session = TRUE
    /\ GameDefault

SpecOutput == InitOutput /\ [][NextOutput]_vars

NextStartup ==
    \/ \E failure \in SetupFailures \cup {"none"}, set_ok \in BOOLEAN :
            main_setup(failure, set_ok)
    \/ \E has_command \in BOOLEAN, outcome \in SpawnOutcomes :
            main_spawn(has_command, outcome)
    \/ \E signal \in {"SIGINT", "SIGTERM"} : handle_signal(signal)
    \/ sigchld_handler
    \/ wl_display_run_returns
    \/ \E fate \in ClientFates \cup {NoFate} : main_after_run(fate)
    \/ main_end

\* main begins: nothing is set up, and the process has the credentials it was
\* started with.
InitStartup ==
    /\ InitViews /\ InitFocus /\ InitSeat /\ InitOutputs /\ InitTerm /\ InitIdle
    /\ InitGhost /\ ConfigDefault
    /\ pc = "start"
    /\ ret = 0
    /\ app_ret = 0
    /\ return_app_code = FALSE
    /\ sigchld_open = FALSE
    /\ client_fate = NoFate
    /\ exit_code = <<>>
    /\ cred \in StartCreds
    /\ setup_failure = "none"
    /\ spawned = "none"
    /\ client_exited = FALSE

SpecStartup == InitStartup /\ [][NextStartup]_vars

\* The supervision of the primary client, from wl_display_run to the exit of
\* the server.
\* Devices with a preferred output and named outputs, attached in any order.
MappedTypes == {"WLR_INPUT_DEVICE_POINTER", "WLR_INPUT_DEVICE_TOUCH"}

NextMap ==
    \/ \E d \in Devices, type \in MappedTypes, output_name \in {NULL} \cup OutputNames :
            handle_new_input(d, type, "us", output_name, TRUE)
    \/ \E d \in Devices : input_device_destroy(d)
    \/ \E name \in OutputNames : handle_new_output("drm", name, PlainHotplug, "ok")

SpecMap == Init /\ [][NextMap]_vars

\* Hotplugs of outputs with every mode list, preference and test result.  The
\* commit succeeds unless the state carries a mode that fails the test.
CommitOutcome(hw) ==
    LET state == new_output_state(hw) IN
    IF state.kind = "mode" /\ state.mode \notin hw.passes THEN "commit_failed" ELSE "ok"

NextMode ==
    \E hw \in Hotplugs : handle_new_output("drm", 1, hw, CommitOutcome(hw))

SpecMode == Init /\ [][NextMode]_vars

\* Toplevels and their fullscreen requests.
NextShell ==
    \/ \E v \in Views : handle_new_xdg_toplevel(v)
    \/ \E v \in Views : handle_xdg_toplevel_map(v)
    \/ \E v \in Views : handle_xdg_toplevel_unmap(v)
    \/ \E v \in Views : handle_xdg_toplevel_destroy(v)
    \/ \E v \in Views, requested \in BOOLEAN :
            handle_xdg_toplevel_request_fullscreen(v, requested)

SpecShell == Init /\ [][NextShell]_vars

\* Drags and cursor motion.
NextDrag ==
    \/ \E sx \in Offsets, sy \in Offsets, outcome \in DragOutcomes :
            handle_start_drag(sx, sy, outcome)
    \/ \E i \in 1..MaxDragIcons : handle_drag_icon_destroy(i)
    \/ \E x \in Coords, y \in Coords : handle_cursor_motion(x, y)

SpecDrag == Init /\ [][NextDrag]_vars

\* Views positioned under every game resolution.
NextView ==
    \/ \E v \in Views : handle_new_xdg_toplevel(v)
    \/ \E v \in Views : handle_xdg_toplevel_map(v)
    \/ \E v \in Views : handle_xdg_toplevel_unmap(v)
    \/ \E v \in Views : handle_xdg_toplevel_destroy(v)
    \/ \E v \in Views, output_width \in BoxSizes, output_height \in BoxSizes :
            maximize(v, output_width, output_height)

InitView ==
    /\ InitState
    /\ output_mode = "GAMEFRAME_MULTI_OUTPUT_MODE_EXTEND"
    /\ allow_vt_switch = FALSE
    /\ has_session = TRUE
    /\ game_width \in GameSizes \cup {DefaultGameWidth}
    /\ game_height \in GameSizes \cup {DefaultGameHeight}

SpecView == InitView /\ [][NextView]_vars

\* The xwayland views and their parents, as the X clients set them up: every
\* chain of parents is finite and free of loops.
RECURSIVE XParentIter(_, _, _)
XParentIter(f, c, n) ==
    IF n = 0 THEN c
    ELSE LET t == XParentIter(f, c, n - 1) IN IF t = NULL THEN NULL ELSE f[t]

XwaylandForests ==
    {f \in [XwaylandViews -> XwaylandViews \cup {NULL}] :
        \A x \in XwaylandViews : XParentIter(f, x, MaxXwaylandViews) = NULL}

NextXwayland ==
    \E child \in XwaylandViews, parent_view \in XwaylandViews \cup Views :
        xwayland_is_transient_for(child, parent_view)

InitXwayland ==
    /\ xwayland_parent \in XwaylandForests
    /\ views = Views
    /\ parent = [v \in Views |-> NULL]
    /\ mapped = Views
    /\ activated = {}
    /\ fullscreen = {}
    /\ InitFocus /\ InitSeat /\ InitOutputs /\ InitTerm /\ InitMain
    /\ InitIdle /\ InitStarted /\ InitGhost /\ ConfigDefault

SpecXwayland == InitXwayland /\ [][NextXwayland]_vars

\* Touch events.
NextTouch ==
    \/ \E id \in TouchIds, x \in Coords, y \in Coords : handle_touch_down(id, x, y)
    \/ \E id \in TouchIds : handle_touch_up(id)
    \/ \E id \in TouchIds, x \in Coords, y \in Coords : handle_touch_motion(id, x, y)
    \/ handle_touch_frame

SpecTouch == Init /\ [][NextTouch]_vars

NextLife ==
    \/ primary_client_exits
    \/ \E signal \in {"SIGINT", "SIGTERM"} : handle_signal(signal)
    \/ sigchld_handler
    \/ wl_display_run_returns
    \/ \E fate \in ClientFates \cup {NoFate} : main_after_run(fate)
    \/ main_end

\* The event loop dispatches an event that stays pending, wl_display_run
\* returns once the run flag is cleared, and main runs on to its end; waitpid
\* returns because the client has terminated or will.
FairLife ==
    /\ WF_vars(sigchld_handler)
    /\ WF_vars(wl_display_run_returns)
    /\ WF_vars(\E fate \in ClientFates \cup {NoFate} : main_after_run(fate))
    /\ WF_vars(main_end)

SpecLife == Init /\ [][NextLife]_vars /\ FairLife

\* Output configuration does not depend on the backend an output comes from,
\* so the outputs configured here are all DRM outputs.
NextConfig ==
    \/ \E outcome \in NewOutputOutcomes : handle_new_output("drm", 1, PlainHotplug, outcome)
    \/ \E request \in ConfigRequests(Len(outputs)), outcome \in ConfigOutcomes :
            handle_output_manager_apply(request, outcome)
    \/ \E request \in ConfigRequests(Len(outputs)), outcome \in ConfigOutcomes :
            handle_output_manager_test(request, outcome)

SpecConfig == InitOutput /\ [][NextConfig]_vars

NextIdle ==
    \/ \E token \in Inhibitors, alloc_ok \in BOOLEAN :
            handle_idle_inhibitor_v1_new(token, alloc_ok)
    \/ \E token \in Inhibitors : idle_inhibitor_destroy(token)

SpecIdle == Init /\ [][NextIdle]_vars

NextMain ==
    \/ \E modifiers \in ModifierSets, state \in KeyStates, syms \in SymSeqs :
            handle_key_event(modifiers, state, syms)
    \/ \E signal \in {"SIGINT", "SIGTERM"} : handle_signal(signal)
    \/ sigchld_handler
    \/ wl_display_run_returns
    \/ \E fate \in ClientFates \cup {NoFate} : main_after_run(fate)
    \/ main_end

\* parse_args: -s permits VT switching.  wlr_backend_autocreate: a session
\* exists when the backend runs on the console, none when it is nested.
InitKeys ==
    /\ InitState
    /\ output_mode = "GAMEFRAME_MULTI_OUTPUT_MODE_EXTEND"
    /\ allow_vt_switch \in BOOLEAN
    /\ has_session \in BOOLEAN
    /\ GameDefault

SpecMain == InitKeys /\ [][NextMain]_vars

\* ------------------------------------------------- focus policy (C1, C2)
\* The toplevel reached from c by following ->parent n times.
RECURSIVE ParentIter(_, _)
ParentIter(c, n) ==
    IF n = 0 THEN c
    ELSE LET t == ParentIter(c, n - 1) IN IF t = NULL THEN NULL ELSE parent[t]

\* The views in the parent chain of c: c is a transient descendant of each.
Ancestors(c) == {a \in Views : \E n \in 1..MaxViews : ParentIter(c, n) = a}

PressSeen == ev.h = "press_cursor_button" /\ ev.view # NULL /\ ev.current # NULL

\* C1 as claimed: when the focused view P is in the parent chain of the view C
\* found under the cursor, the focus re-evaluation leaves the focus on P and
\* does not call seat_set_focus.
C1_ClickOnTransientChildKeepsFocus ==
    (PressSeen /\ ev.current \in Ancestors(ev.view))
        => (seat_get_focus = ev.current /\ ~Called("seat_set_focus"))

\* C1 as the code has it: when the focused view C is a transient descendant of
\* the view P found under the cursor (P is in C's parent chain), the focus
\* re-evaluation leaves the focus on C and does not call seat_set_focus.
C1_ClickOnAncestorKeepsFocus ==
    (PressSeen /\ ev.view \in Ancestors(ev.current))
        => (seat_get_focus = ev.current /\ ~Called("seat_set_focus"))

\* The focused view is a grandchild of the view under the cursor, and kept the focus.
C1_Witness ==
    /\ PressSeen
    /\ ev.view \in Ancestors(ev.current)
    /\ parent[ev.current] # ev.view
    /\ seat_keyboard
    /\ seat_get_focus = ev.current

\* C2: at most one mapped view is in the activated state.
C2_AtMostOneActivated == Cardinality(activated \cap mapped) <= 1

\* ------------------------------------------------------ exit code (C3)
\* C3: when the server shuts down because the client's liveness event was
\* handled, the exit code is N for a client that exited with status N, 128+S
\* for a client killed by signal S, and 0 for any other wait outcome.
C3_ExitCodeTranslatesClientFate ==
    (pc = "exited" /\ return_app_code /\ ret = 0)
        => exit_code = << CASE client_fate.kind = "exited" -> client_fate.n
                            [] client_fate.kind = "signaled" -> 128 + client_fate.sig
                            [] OTHER -> 0 >>

\* The client was killed by the highest signal, with a core dump.
C3_Witness ==
    /\ pc = "exited"
    /\ return_app_code
    /\ client_fate = [kind |-> "signaled", sig |-> MaxSignal, core |-> TRUE]
    /\ exit_code = <<128 + MaxSignal>>

KeySeen == ev.h = "handle_key_event"
AltHeld == "WLR_MODIFIER_ALT" \in ev.modifiers
Pressed == ev.state = "WL_KEYBOARD_KEY_STATE_PRESSED"
HasEscape == \E i \in 1..Len(ev.syms) : ev.syms[i] = XKB_KEY_Escape
IsVTSym(sym) == sym >= XKB_KEY_XF86Switch_VT_1 /\ sym <= XKB_KEY_XF86Switch_VT_12
OnlyVTSyms == ev.syms # <<>> /\ \A i \in 1..Len(ev.syms) : IsVTSym(ev.syms[i])
Forwarded == Called("wlr_seat_keyboard_notify_key")

LastMode == output_mode = "GAMEFRAME_MULTI_OUTPUT_MODE_LAST"

\* C7: under `last`, when the newest remaining output is enabled it is the only
\* output enabled and the only one in the layout.
C7_LastKeepsOnlyNewest ==
    (LastMode /\ outputs # <<>> /\ outputs[1].enabled)
        => \A i \in 2..Len(outputs) :
              ~outputs[i].enabled /\ ~outputs[i].in_layout

\* C8: under `last`, the destroy of the newest output, which was enabled, with
\* others left behind calls output_enable for the head of the remaining list
\* and then view_position_all.
C8_DestroyPromotesHead ==
    (ev.h = "output_destroy" /\ ev.was_active /\ LastMode /\ outputs # <<>>)
        => \E i, j \in 1..Len(calls) :
              /\ i < j
              /\ calls[i] = Call("output_enable", 1)
              /\ calls[j].f = "view_position_all"

\* C9: the destroy of an output calls server_terminate exactly when no output
\* remains and the destroyed output was nested (hosted by Wayland or X11).
C9_TerminateIffLastNestedGone ==
    ev.h = "output_destroy"
        => (Called("server_terminate")
                <=> (outputs = <<>> /\ ev.kind \in {"wl", "x11"}))

\* The last output, an X11 window, was destroyed and the display told to stop.
C9_Witness ==
    /\ ev.h = "output_destroy"
    /\ ev.kind = "x11"
    /\ outputs = <<>>
    /\ Called("server_terminate")
    /\ ~run

\* -------------------------------------------------- seat capabilities (C10)
\* C10: a device removed right after it was attached leaves the seat's
\* capabilities as they were before the attach.
C10_AttachDetachRestoresCaps ==
    (ev.h = "input_device_destroy" /\ ev.attach_caps # <<>>)
        => caps = ev.attach_caps[1]

\* C11: after a device add or remove handler, the advertised capabilities are
\* keyboard iff the keyboard-group collection is non-empty, pointer iff the
\* pointer collection is non-empty, touch iff the touch collection is non-empty.
C11_CapsMatchCollections ==
    ev.h \in {"handle_new_input", "input_device_destroy"}
        => /\ "WL_SEAT_CAPABILITY_KEYBOARD" \in caps <=> keyboard_groups # <<>>
           /\ "WL_SEAT_CAPABILITY_POINTER" \in caps <=> pointers # <<>>
           /\ "WL_SEAT_CAPABILITY_TOUCH" \in caps <=> touch # <<>>
           /\ caps \subseteq {"WL_SEAT_CAPABILITY_KEYBOARD",
                              "WL_SEAT_CAPABILITY_POINTER",
                              "WL_SEAT_CAPABILITY_TOUCH"}

\* The last pointer was removed while a touch device stays attached.
C11_Witness ==
    /\ ev.h = "input_device_destroy"
    /\ ev.type = "WLR_INPUT_DEVICE_POINTER"
    /\ pointers = <<>>
    /\ touch # <<>>
    /\ caps = {"WL_SEAT_CAPABILITY_TOUCH"}

\* ------------------------------------------------- idle inhibition (C12)
\* C12: after every idle-inhibitor create handler and every idle-inhibitor
\* destroy, the flag given to the idle notifier is true exactly when at least one
\* inhibitor object exists.
C12_InhibitedIffLiveTokens ==
    ev.h \in {"handle_idle_inhibitor_v1_new", "idle_inhibitor_destroy"}
        => (inhibited <=> live_inhibitors # {})

\* ------------------------------------- output configuration (C13 - C15)
ConfigSeen == ev.h \in {"handle_output_manager_apply", "handle_output_manager_test"}

\* C13: a configuration request (apply or test) is answered with success
\* exactly when output_config_apply returned success, and with failure when it
\* returned failure.
C13_SuccessReportedIffApplied ==
    (ConfigSeen /\ ~crashed)
        => /\ Called("wlr_output_configuration_v1_send_succeeded") <=> ev.ok
           /\ ~ev.ok => Called("wlr_output_configuration_v1_send_failed")

\* C14: a test-only request never commits to the backend and leaves the output
\* list, the enabled state of every output and the layout as they were,
\* whether the validation succeeds or fails.
C14_TestChangesNothing ==
    [][ev'.h = "handle_output_manager_test"
         => /\ outputs' = outputs
            /\ \A i \in 1..Len(calls') : calls'[i].f # "wlr_backend_commit"]_vars

\* A test succeeded for a request that asks for another enabled state than an
\* output has.
C14_Witness ==
    /\ ev.h = "handle_output_manager_test"
    /\ ev.ok
    /\ \E i \in 1..Len(outputs) : ev.request[i] # outputs[i].enabled

\* C15: an apply request that commits successfully leaves each output in the
\* layout exactly when the request enables it and broadcasts the configuration;
\* one that fails leaves the layout as it was and broadcasts nothing.
C15_ApplyUpdatesLayoutAndNotifies ==
    [][(ev'.h = "handle_output_manager_apply" /\ ~crashed')
         => IF ev'.ok
            THEN /\ \A i \in 1..Len(outputs') : outputs'[i].in_layout = ev'.request[i]
                 /\ \E i \in 1..Len(calls') : calls'[i].f = "update_output_manager_config"
            ELSE /\ \A i \in 1..Len(outputs') : outputs'[i].in_layout = outputs[i].in_layout
                 /\ \A i \in 1..Len(calls') : calls'[i].f # "update_output_manager_config"]_vars

\* ------------------------------------------- repositioning of views (C16)
\* Whether the last call of view_position_all comes after every other call
\* that changes the layout or reports its change.
RepositionedLast(cs) ==
    \E j \in 1..Len(cs) :
        /\ cs[j].f = "view_position_all"
        /\ \A k \in j + 1..Len(cs) :
              cs[k].f \notin {"output_layout_add_auto", "handle_output_layout_change"}

\* C16: a hotplug or destroy handler after which another set of outputs is in
\* the layout than before, and which returns, has called view_position_all
\* after the last change of the layout, in both multi-output modes.
C16_LayoutChangeRepositions ==
    [][/\ ~crashed'
       /\ \/ /\ ev'.h = "handle_new_output"
             /\ Len(outputs') > Len(outputs)
             /\ outputs'[1].in_layout
          \/ /\ ev'.h = "output_destroy"
             /\ Len(outputs') < Len(outputs)
             /\ \/ outputs[ev'.i].in_layout
                \/ \E j \in 1..Len(outputs') :
                      outputs'[j].in_layout # RemoveAt(outputs, ev'.i)[j].in_layout
       => RepositionedLast(calls')]_vars

\* Under `extend` an output that was in the layout was destroyed while others
\* remain, and the views were repositioned.
C16_Witness ==
    /\ ev.h = "output_destroy"
    /\ output_mode = "GAMEFRAME_MULTI_OUTPUT_MODE_EXTEND"
    /\ outputs # <<>>
    /\ Called("handle_output_layout_change")
    /\ RepositionedLast(calls)

\* ------------------------------------------------- failed hotplug (C20)
\* C20: an output hotplug that fails at render initialisation, at the
\* allocation of the record or at the allocation of the scene output leaves the
\* output list as it was.
C20_FailedHotplugSkipped ==
    [][(ev'.h = "handle_new_output"
            /\ ev'.outcome \in {"render_failed", "alloc_failed", "scene_failed"})
         => outputs' = outputs]_vars

\* ------------------------------------------- client launch failure (C17)
\* The ways in which the primary client fails to launch.
LaunchFailures == {"pipe_failed", "fork_failed", "cloexec_failed", "exec_failed"}

\* C17 as claimed: whenever the primary client failed to launch, the server's
\* exit code is 1.
C17_LaunchFailureExitsWithOne ==
    (spawned \in LaunchFailures /\ pc = "exited") => exit_code = <<1>>

\* C17 as the code has it: when the pipe, the fork or the fd setup fails, the
\* event loop is never entered and the exit code is 1.  When execvp fails in
\* the child the event loop is entered; while it runs, the liveness event is
\* still to come or the loop has been asked to stop, and the exit code is 1 if
\* the liveness event was handled before the loop was left.
C17_LaunchFailureStopsServer ==
    /\ spawned \in {"pipe_failed", "fork_failed", "cloexec_failed"}
          => /\ pc \in {"end", "exited"}
             /\ ret = 1
             /\ pc = "exited" => exit_code = <<1>>
    /\ (spawned = "exec_failed" /\ pc = "run") => (sigchld_open \/ ~run)
    /\ (spawned = "exec_failed" /\ pc = "exited" /\ return_app_code)
          => exit_code = <<1>>

\* execvp failed, the liveness event stopped the server and it left with 1.
C17_Witness ==
    /\ spawned = "exec_failed"
    /\ pc = "exited"
    /\ return_app_code
    /\ client_fate = exec_failure_fate
    /\ exit_code = <<1>>

\* ------------------------------------------------- setup failure (C18)
\* C18: after a failure of main's setup, or without a client command, the
\* event loop is never entered, the process is not killed, and when it has left
\* its exit code is 1.
C18_SetupFailureReturnsOne ==
    (setup_failure # "none" \/ spawned = "no_command")
        => /\ pc \notin {"run", "after_run"}
           /\ ~crashed
           /\ pc = "exited" => exit_code = <<1>>

\* --------------------------------------------------- privileges (C19)
\* C19: once the primary client has been forked, the server neither holds root
\* nor can regain it; when drop_permissions fails, spawn_primary_client is not
\* reached.
C19_ClientNeverSpawnedWithRoot ==
    /\ spawned \in {"cloexec_failed", "exec_failed", "ok"} => ~HoldsOrCanRegainRoot(cred)
    /\ setup_failure = "drop_permissions" => spawned = "none"

\* ------------------------------------- supervision of the client (C21)
\* cleanup_primary_client's result for a client found as `fate`.
TranslatedExitCode(fate) ==
    CASE fate.kind = "exited" -> fate.n
      [] fate.kind = "signaled" -> 128 + fate.sig
      [] OTHER -> 0

\* C21 as claimed: once the client has terminated, the liveness handler runs,
\* the child is reaped and the server leaves with the translated exit code.
C21_ClientExitLeadsToItsExitCode ==
    client_exited ~> (/\ pc = "exited"
                      /\ return_app_code
                      /\ client_fate # NoFate
                      /\ exit_code = <<TranslatedExitCode(client_fate)>>)

\* C21 as the code has it: once the client has terminated the server leaves;
\* when the liveness handler ran before the event loop was left, the child was
\* reaped and the exit code is the translated one; when another termination
\* request ended the loop first, the child was not reaped and the exit code
\* is 0.
C21_ClientExitLeadsToServerExit ==
    client_exited ~> (/\ pc = "exited"
                      /\ IF return_app_code
                         THEN /\ client_fate # NoFate
                              /\ exit_code = <<TranslatedExitCode(client_fate)>>
                         ELSE /\ client_fate = NoFate
                              /\ exit_code = <<0>>)

\* The client terminated on its own with status 7 and the server left with 7.
C21_Witness ==
    /\ pc = "exited"
    /\ client_exited
    /\ return_app_code
    /\ terminate_calls = 1
    /\ client_fate = [kind |-> "exited", n |-> 7]
    /\ exit_code = <<7>>

\* ------------------------------------ precedence of the client's code (C22)
\* C22: when the liveness event was handled before the event loop was left,
\* whatever other termination requests were made, and no setup step failed, the
\* child was reaped and the exit code is its translated status.
C22_HandledLivenessDecidesExitCode ==
    (pc = "exited" /\ return_app_code /\ setup_failure = "none" /\ ret = 0)
        => /\ client_fate # NoFate
           /\ exit_code = <<TranslatedExitCode(client_fate)>>

\* The liveness event and another termination request were both handled in the
\* run, and the server left with the code of a client killed by SIGKILL.
C22_Witness ==
    /\ pc = "exited"
    /\ return_app_code
    /\ terminate_calls = 2
    /\ client_fate = [kind |-> "signaled", sig |-> 9, core |-> FALSE]
    /\ exit_code = <<128 + 9>>

\* ----------------------------------------------- the blocking wait (C23)
\* C23: cleanup_primary_client is called by main after wl_display_run has
\* returned and by no handler, and only when the liveness event was handled; a
\* server that left without it has not waited for the child and, no setup step
\* having failed, leaves with 0.
C23_WaitOnlyAfterLoopAndLiveness ==
    /\ Called("cleanup_primary_client")
          => (ev.h = "main_after_run" /\ pc = "end" /\ return_app_code)
    /\ client_fate # NoFate => (pc \in {"end", "exited"} /\ return_app_code)
    /\ (pc = "exited" /\ ~return_app_code /\ setup_failure = "none" /\ ret = 0)
          => (client_fate = NoFate /\ exit_code = <<0>>)

\* A signal ended the run, the child was not waited for and the server left
\* with 0.
C23_Witness ==
    /\ pc = "exited"
    /\ ~return_app_code
    /\ sigchld_open
    /\ terminate_calls >= 1
    /\ client_fate = NoFate
    /\ exit_code = <<0>>

\* ------------------------------------------------ touch forwarding (C24)
TouchHandlers == {"handle_touch_down", "handle_touch_up", "handle_touch_motion"}

\* C24: every touch down, motion and up event handled by the seat is passed on
\* to the client (a seat touch notification is issued) and marks activity.
C24_TouchEventsForwarded ==
    ev.h \in TouchHandlers
        => /\ Called("wlr_idle_notifier_v1_notify_activity")
           /\ \/ Called("wlr_seat_touch_notify_down")
              \/ Called("wlr_seat_touch_notify_up")
              \/ Called("wlr_seat_touch_notify_motion")

\* ------------------------------------- devices mapped to outputs (C25)
HasOutputNamed(name) == \E i \in 1..Len(outputs) : outputs[i].name = name

\* C25: whenever an attached device with preferred output name N and an output
\* named N are both present, in whichever order they arrived, the device is
\* mapped to that output; a device with no preferred name, or with a name no
\* output has had since it was attached, is mapped to no output.
C25_DeviceMappedOncePresent ==
    \A d \in Devices :
        dev[d].type \in MappedTypes
            => IF dev[d].output_name # NULL /\ HasOutputNamed(dev[d].output_name)
               THEN input_map[d] = dev[d].output_name
               ELSE input_map[d] = NULL

\* ------------------------------------------ keyboard groups (C26, C30)
IsVirtualKeyboard(d) == dev[d].type = "WLR_INPUT_DEVICE_VIRTUAL_KEYBOARD"
IsKeyboard(d) == dev[d].type = "WLR_INPUT_DEVICE_KEYBOARD"

\* C26: after any sequence of keyboard attaches no group holds both a virtual
\* and a non-virtual keyboard, every attached virtual keyboard is the only
\* member of a (virtual) group made for it, and non-virtual keyboards are only
\* in non-virtual groups.
C26_VirtualKeyboardsGroupedAlone ==
    /\ \A i \in 1..Len(keyboard_groups) :
          \A d1 \in keyboard_groups[i].devices, d2 \in keyboard_groups[i].devices :
              IsVirtualKeyboard(d1) = IsVirtualKeyboard(d2)
    /\ \A d \in Devices :
          IsVirtualKeyboard(d)
              => \E i \in 1..Len(keyboard_groups) :
                     /\ keyboard_groups[i].is_virtual
                     /\ keyboard_groups[i].devices = {d}
    /\ \A d \in Devices :
          IsKeyboard(d)
              => \A i \in 1..Len(keyboard_groups) :
                     d \in keyboard_groups[i].devices => ~keyboard_groups[i].is_virtual

\* C30: a keyboard group leaves seat->keyboard_groups when its last keyboard
\* is removed; the collection never holds a group without devices.
C30_NoEmptyKeyboardGroup ==
    \A i \in 1..Len(keyboard_groups) : keyboard_groups[i].devices # {}

\* ------------------------------------------------ is_transient_for (C28)
\* C28: is_transient_for(child, parent) is true exactly when the parent is a
\* native (xdg-shell) view whose toplevel is in the chain of parents of the
\* child's toplevel; it is false for a parent that is not a native view, and
\* it terminates on every finite acyclic chain.
C28_TransientIffInParentChain ==
    \A child \in views, parent_view \in views \cup XwaylandViews :
        is_transient_for(child, parent_view)
            <=> /\ view_type(parent_view) = "GAMEFRAME_XDG_SHELL_VIEW"
                /\ parent_view \in Ancestors(child)

\* The focused view is a transient of the view under the cursor through an
\* intermediate toplevel, and is_transient_for said so.
C28_Witness ==
    /\ PressSeen
    /\ parent[ev.current] \notin {NULL, ev.view}
    /\ parent[parent[ev.current]] = ev.view
    /\ is_transient_for(ev.current, ev.view)
    /\ ~is_transient_for(ev.view, ev.current)
    /\ \A x \in XwaylandViews : ~is_transient_for(ev.current, x)
    /\ focused_surface = ev.current

\* -------------------------------------------- fullscreen requests (C27)
\* C27: after a fullscreen request on a mapped native view, whatever the
\* client asked for, the view is fullscreen; a request on an unmapped view
\* changes nothing.
C27_MappedViewStaysFullscreen ==
    ev.h = "handle_xdg_toplevel_request_fullscreen"
        => IF ev.was_mapped
           THEN ev.view \in fullscreen
           ELSE (ev.view \in fullscreen) = ev.was_fullscreen /\ calls = <<>>

\* ------------------------------------------- mode of a new output (C29)
\* The first mode of the list, other than the preferred one, that passes the
\* test (NULL when none does).
FirstOtherPassing(hw) ==
    LET others == hw.passes \ {wlr_output_preferred_mode(hw)} IN
    IF others = {} THEN NULL
    ELSE CHOOSE m \in others : \A o \in others : m <= o

\* C29: the state a hotplugged output is committed with carries the custom
\* resolution when both configured dimensions are positive; else the preferred
\* mode when it passes the test; else the first other mode of the list that
\* passes; when no mode passes, the mode in the state is one that was tested.
C29_ModeChosenByPriority ==
    (ev.h = "handle_new_output" /\ ev.state # <<>>)
        => LET hw == ev.hw
               state == ev.state[1]
               preferred_mode == wlr_output_preferred_mode(hw)
           IN
           IF hw.nested_width > 0 /\ hw.nested_height > 0
           THEN state.kind = "custom"
           ELSE IF hw.modes = 0
           THEN state.kind = "none"
           ELSE /\ state.kind = "mode"
                /\ IF preferred_mode \in hw.passes
                   THEN state.mode = preferred_mode
                   ELSE IF FirstOtherPassing(hw) # NULL
                   THEN state.mode = FirstOtherPassing(hw)
                   ELSE state.mode \in state.tested

\* An output whose preferred mode (2) and first mode fail the test and whose
\* third mode passes came up with the third mode.
C29_Witness ==
    /\ ev.h = "handle_new_output"
    /\ ev.outcome = "ok"
    /\ ev.hw = [nested_width |-> 1, nested_height |-> 0, modes |-> 3,
                preferred |-> 2, passes |-> {3}]
    /\ ev.state = <<[kind |-> "mode", mode |-> 3, tested |-> {1, 2, 3}]>>
    /\ outputs # <<>>
    /\ outputs[1].enabled

\* ---------------------------------------------------- drag icons (C31, C38)
\* C31: while a drag icon exists, the position of its scene node is the cursor
\* position plus the icon's offset, after the drag start and after every
\* cursor move, until the icon's destroy notification.
C31_DragIconFollowsCursor ==
    \A i \in 1..Len(drag_icons) :
        ~drag_icons[i].freed
            => /\ drag_icons[i].x = cursor_x + drag_icons[i].sx
               /\ drag_icons[i].y = cursor_y + drag_icons[i].sy

\* C38: every record linked in seat->drag_icons is live; a drag start whose
\* scene tree cannot be made leaves the collection as it was, and a drag-icon
\* destroy removes exactly the destroyed record.
C38_DragIconsAreLive ==
    /\ \A i \in 1..Len(drag_icons) : ~drag_icons[i].freed
    /\ (ev.h = "handle_start_drag" /\ ev.outcome = "scene_failed")
           => drag_icons = ev.before
    /\ ev.h = "handle_drag_icon_destroy"
           => drag_icons = RemoveAt(ev.before, ev.i)

\* ------------------------------------------------------ cursor image (C32)
\* C32: the step that removes the seat's last pointer clears the cursor image,
\* the step that attaches its first pointer loads the default image, and in
\* between the image is the default one exactly while a pointer is attached.
C32_CursorImageFollowsPointerCapability ==
    [][/\ (pointers # <<>> /\ pointers' = <<>>) => cursor_image' = "unset"
       /\ (pointers = <<>> /\ pointers' # <<>>) => cursor_image' = "default"
       /\ (cursor_image' = "default") <=> (pointers' # <<>>)
       /\ (cursor_image' = "default") <=> ("WL_SEAT_CAPABILITY_POINTER" \in caps')]_vars

\* The last pointer was removed while a keyboard stays attached: the image is
\* cleared and the pointer capability is gone.
C32_Witness ==
    /\ ev.h = "input_device_destroy"
    /\ ev.type = "WLR_INPUT_DEVICE_POINTER"
    /\ pointers = <<>>
    /\ keyboard_groups # <<>>
    /\ cursor_image = "unset"
    /\ caps = {"WL_SEAT_CAPABILITY_KEYBOARD"}

\* ------------------------------------------------------------ maximize (C33)
\* C33: maximize sizes a native view to exactly the width and height of the
\* box it is given, whatever the configured game resolution.
C33_MaximizedToTheBox ==
    ev.h = "maximize"
        => /\ ev.size.width = ev.output_width
           /\ ev.size.height = ev.output_height

\* ----------------------------------- spawn failure after the fork (C34)
\* C34: when spawn_primary_client fails after the fork (close-on-exec cannot
\* be set on a pipe end), the forked client has been waited for by the time
\* the server exits.
C34_ForkedClientReapedOnSpawnFailure ==
    (pc = "exited" /\ spawned = "cloexec_failed") => client_fate # NoFate

\* ------------------------------------------- keys of several symbols (C35)
\* Whether handle_keybinding has an action for the symbol.
IsBound(sym) == sym = XKB_KEY_Escape \/ (allow_vt_switch /\ IsVTSym(sym))

\* C35: a key press with Alt held is consumed (not forwarded to the client)
\* when any one of its symbols matches a bound action, wherever that symbol
\* stands among the symbols of the event.
C35_AnyBoundSymbolConsumesPress ==
    (KeySeen /\ AltHeld /\ Pressed /\ \E i \in 1..Len(ev.syms) : IsBound(ev.syms[i]))
        => ~Forwarded

\* ------------------------------------ is_transient_for of xwayland (C36)
\* The xwayland views in the chain of parents of c.
XwaylandAncestors(c) ==
    {a \in XwaylandViews :
        \E n \in 1..MaxXwaylandViews : XParentIter(xwayland_parent, c, n) = a}

\* C36: for two xwayland views of which the parent is an ancestor of the
\* child, the xwayland is_transient_for returns true.
C36_XwaylandTransientOfAncestor ==
    (/\ ev.h = "xwayland_is_transient_for"
     /\ ev.parent_view \in XwaylandAncestors(ev.child))
        => ev.result

\* --------------------------------- the assert on the scene output (C37)
\* C37: the assert of output_layout_add_auto never fails: no sequence of
\* hotplugs, destroys and promotions under `last` calls output_enable and
\* then output_layout_add_auto for an output without a scene_output.
C37_SceneOutputAssertHolds ==
    ~(/\ ev.h = "output_destroy"
      /\ Called("output_layout_add_auto")
      /\ outputs # <<>>
      /\ ~outputs[1].scene_output
      /\ crashed)

\* ------------------------------------ collections are initialised (C39)
\* C39: a handler that inserts into a collection finds it initialised; in
\* particular the new-inhibitor handler, once its listener is registered,
\* links its record into an initialised idle-inhibitor collection.
C39_InhibitorsInitialisedBeforeInsert ==
    (ev.h = "handle_idle_inhibitor_v1_new" /\ Called("wl_list_insert"))
        => (inhibitors_initialised /\ ~crashed)

\* ------------------------------------------- focus is what was set (C40)
\* C40: after seat_set_focus(V), seat_get_focus() returns V, whether or not
\* the seat has a keyboard; and no view is marked activated while the seat's
\* focus refers to another view or to none.
C40_FocusIsWhatWasSet ==
    ~crashed =>
        /\ \A v \in Views : CalledWith("seat_set_focus", v) => seat_get_focus = v
        /\ \A v \in activated : seat_get_focus = v
====
